---- MODULE Spec2Model ----
(***************************************************************************)
(* rn-builder: the log sink (log.go), the command runner (run.go), the     *)
(* pipeline orchestrator (build.go), the window (main.go), the version and *)
(* iOS workspace functions (utils.go) and the Drive upload                 *)
(* (unnamed/part_003) as state machines.                                   *)
(*                                                                         *)
(* Byte strings are sequences of one-character strings, so that splitting, *)
(* trimming and joining are computed the way the Go code computes them.    *)
(***************************************************************************)
EXTENDS Integers, Sequences, FiniteSets, TLC

VARIABLES
    \* ---- log sink (log.go) ----
    logBuffer,      \* var logBuffer bytes.Buffer: the unread bytes
    lines,          \* var lines []string: the ring shown in the GUI
    fileContent,    \* the bytes lw.file holds on disk
    refresh,        \* the fyne.Do call scheduled by the last Write, if any
    ret,            \* what the last Write returned: (n, err)
    lastP,          \* the argument p of the last Write
    nWrites,        \* number of Write calls made so far
    stream,         \* history: bytes of every Write that returned no error, in lock order
    accepted,       \* history: the input of every Write that succeeded and, of every
                    \* Write that failed, the first n bytes, n being the count it returned
    extracted       \* history: every line appended to the ring, in order

logVars == <<logBuffer, lines, fileContent, refresh, ret, lastP, nWrites,
             stream, accepted, extracted>>

VARIABLES
    \* ---- command runner (run.go) ----
    rcPc,           \* where runCmd is: "ready", "running", "joined", "returned"
    rcArgs,         \* printCmd, and the host: GOOS and whether $SHELL is set
    proc,           \* the subprocess: state and exit code
    wrote,          \* history: the lines the subprocess has written, per stream
    pipe,           \* the lines in flight in each pipe, and the pipe's state
    rd,             \* each reader goroutine: "idle", "reading", "done"
    sink,           \* the Write calls logOutput received, in order
    rcRet           \* the error runCmd returned

runVars == <<rcPc, rcArgs, proc, wrote, pipe, rd, sink, rcRet>>

VARIABLES
    \* ---- build button and pipeline (main.go, build.go) ----
    cfg,            \* the Config gathered from the UI
    goos,           \* runtime.GOOS of the host
    pPc,            \* where the run is: "ui", "rejected", a step of runBuildProcess, "done"
    calls,          \* history: the steps of runBuildProcess invoked so far, with outcome
    launched,       \* history: the external commands started so far
    buildNumber,    \* buildNumber
    currentBranch,  \* currentBranch (isMainBranch is currentBranch = "main")
    androidArtifactPath,
    iosArtifactPath,
    pRet            \* the error runBuildProcess returned

pipeVars == <<cfg, goos, pPc, calls, launched, buildNumber, currentBranch,
              androidArtifactPath, iosArtifactPath, pRet>>

VARIABLES
    \* ---- the window: build button, log view, goroutines (main.go, log.go) ----
    buttonDisabled, \* buildButton is disabled
    running,        \* number of runBuildProcess calls that have not returned
    started,        \* number of runs started so far
    gPc,            \* each run's goroutine: "none", "run", "report", "settext", "enable"
    lock,           \* the thread holding lw.mu, or NoThread
    wPc,            \* each writer thread inside Write: "out", "locked", "await"
    leftover,       \* Write calls still to come from goroutines a returned runCmd left behind
    uiQueue,        \* the functions handed to fyne.Do and not yet executed
    display,        \* the text of logEntry
    uiMutations,    \* history: the UI mutations made, with thread and route
    accesses        \* history: the accesses to logBuffer and lines, with thread and lock holder

uiVars == <<buttonDisabled, running, started, gPc, lock, wPc, leftover, uiQueue,
            display, uiMutations, accesses>>

VARIABLES
    \* ---- the version functions applied to one input (utils.go) ----
    vIn,            \* the version string
    vPc,            \* "in", "validated", "done"
    vValid,         \* what isValidVersion(vIn) returned
    vOut            \* what calculateBuildNumberSimple(vIn) returned

verVars == <<vIn, vPc, vValid, vOut>>

VARIABLES
    \* ---- findIOSWorkspaceAndScheme applied to one ios directory (utils.go) ----
    iosDirState,    \* the ios directory: whether it can be read, and what it holds
    iosOverride,    \* config.IOS: ProjectName and Scheme
    iosPc,          \* "in", "done"
    iosOut          \* what findIOSWorkspaceAndScheme returned

iosVars == <<iosDirState, iosOverride, iosPc, iosOut>>

VARIABLES
    \* ---- the Drive upload: call site and function (build.go, unnamed/part_003) ----
    drvCfg,         \* config, as passed to uploadToGoogleDriveWithAPIGUI
    drvWorld,       \* apkPath and what the function finds on the host
    drvPc,          \* "site", "skipped", "entry", "doing", "returned"
    drvCreds,       \* where credentialsPath came from: "", "config", "env"
    drvWriter,      \* the writer goroutine: "none", a stage, "report", "closing", "done"
    drvWriteErr,    \* writeErr of the writer goroutine ("" is nil)
    drvChan,        \* uploadErrChan (capacity 1)
    drvPipe,        \* the two ends of io.Pipe(): pr, pw
    drvResp,        \* client.Do: not called, pending, a transport error or a response
    drvRet          \* what the function returned

drvVars == <<drvCfg, drvWorld, drvPc, drvCreds, drvWriter, drvWriteErr, drvChan,
             drvPipe, drvResp, drvRet>>

VARIABLES
    \* ---- the build.gradle patch of buildAndroidGUI (build.go) ----
    buildGradle,    \* the content of android/app/build.gradle
    gradlePrev,     \* history: the content before the last patch
    patchCount,     \* number of times the patch has been applied
    patchRet        \* the last patch: whether it failed, and the build number it used

gradleVars == <<buildGradle, gradlePrev, patchCount, patchRet>>

vars == <<logVars, runVars, pipeVars, uiVars, verVars, iosVars, drvVars, gradleVars>>

notLogVars == <<runVars, pipeVars, uiVars, verVars, iosVars, drvVars, gradleVars>>
notRunVars == <<logVars, pipeVars, uiVars, verVars, iosVars, drvVars, gradleVars>>
notPipeVars == <<logVars, runVars, uiVars, verVars, iosVars, drvVars, gradleVars>>
notLogUiVars == <<runVars, pipeVars, verVars, iosVars, drvVars, gradleVars>>
notVerVars == <<logVars, runVars, pipeVars, uiVars, iosVars, drvVars, gradleVars>>
notIosVars == <<logVars, runVars, pipeVars, uiVars, verVars, drvVars, gradleVars>>
notDrvVars == <<logVars, runVars, pipeVars, uiVars, verVars, iosVars, gradleVars>>
notGradleVars == <<logVars, runVars, pipeVars, uiVars, verVars, iosVars, drvVars>>

-----------------------------------------------------------------------------
(* Bytes *)

NL == "\n"
CR == "\r"

\* const maxLogLines = 25
maxLogLines == 25

\* Number of Write calls in one behaviour of the log sink.
MaxWrites == 3

\* Number of lines of the one large input (a multi-line write that fills the ring).
BulkLines == 24

RECURSIVE Repeat(_, _)
Repeat(b, n) == IF n = 0 THEN <<>> ELSE <<b>> \o Repeat(b, n - 1)

RECURSIVE BulkChunk(_)
\* k newline-terminated lines; neighbouring lines differ ("a", "aa", "", "a", ...).
BulkChunk(k) ==
    IF k = 0 THEN <<>>
    ELSE BulkChunk(k - 1) \o Repeat("a", k % 3) \o <<NL>>

\* The inputs of Write: empty, partial lines, whole lines, CR LF endings,
\* several lines at once, a line followed by a partial line, and a large one.
Chunks ==
    { <<>>,
      <<"a">>,
      <<NL>>,
      <<CR>>,
      <<"b", NL>>,
      <<"a", CR, NL>>,
      <<NL, "b">>,
      <<"a", NL, "b", NL>>,
      BulkChunk(BulkLines) }

-----------------------------------------------------------------------------
(* bytes.Buffer and strings helpers, as the Go library computes them *)

\* bytes.IndexByte: index of the first c in s (1-based), 0 when absent.
IndexByte(s, c) ==
    IF \E i \in 1..Len(s) : s[i] = c
    THEN CHOOSE i \in 1..Len(s) : s[i] = c /\ \A j \in 1..(i - 1) : s[j] # c
    ELSE 0

\* bytes.Buffer.ReadString('\n') (readSlice): with a delimiter it returns the
\* bytes up to and including it; without one it returns ALL unread bytes
\* together with io.EOF, and the buffer's read offset moves to the end either way.
ReadString(buf) ==
    LET i == IndexByte(buf, NL) IN
    IF i = 0
    THEN [line |-> buf, rest |-> <<>>, err |-> TRUE]
    ELSE [line |-> SubSeq(buf, 1, i), rest |-> SubSeq(buf, i + 1, Len(buf)), err |-> FALSE]

RECURSIVE TrimRight(_)
\* strings.TrimRight(line, "\r\n"): drops every trailing CR and LF.
TrimRight(s) ==
    IF s # <<>> /\ s[Len(s)] \in {CR, NL}
    THEN TrimRight(SubSeq(s, 1, Len(s) - 1))
    ELSE s

RECURSIVE Join(_, _)
\* strings.Join(lines, sep)
Join(ls, sep) ==
    IF ls = <<>> THEN <<>>
    ELSE IF Len(ls) = 1 THEN ls[1]
    ELSE ls[1] \o <<sep>> \o Join(Tail(ls), sep)

-----------------------------------------------------------------------------
(* LogWriter.Write *)

Evict_NoDrop(ring) == ring

Evict_DropNewest(ring) ==
    IF Len(ring) > maxLogLines THEN SubSeq(ring, 1, Len(ring) - 1) ELSE ring

\* if len(lines) > maxLogLines { lines = lines[1:] }
Evict(ring) ==
    IF Len(ring) > maxLogLines THEN Tail(ring) ELSE ring

RECURSIVE ExtractLoop(_, _, _)
\* for { line, err := logBuffer.ReadString('\n'); if err != nil { break }; ... }
\* got collects the lines appended to the ring by this call.
ExtractLoop(buf, ring, got) ==
    LET r == ReadString(buf) IN
    IF r.err
    THEN [buf |-> r.rest, ring |-> ring, got |-> got]
    ELSE ExtractLoop(r.rest,
                     Evict(Append(ring, TrimRight(r.line))),
                     Append(got, TrimRight(r.line)))

\* lw.file.Write(p): either all of p is written, or the write fails after
\* n < len(p) bytes (os.File.Write returns the count written with the error).
FileOutcomes(p) ==
    {[n |-> Len(p), err |-> FALSE]} \cup
    {[n |-> k, err |-> TRUE] : k \in {0, Len(p) \div 2} \cap 0..(Len(p) - 1)} \cup
    (IF p = <<>> THEN {[n |-> 0, err |-> TRUE]} ELSE {})

FileWrite_AfterTrim(content, p, fo) == content \o TrimRight(SubSeq(p, 1, fo.n))

\* The file after lw.file.Write(p) with outcome fo.
FileWrite(content, p, fo) == content \o SubSeq(p, 1, fo.n)

\* bytes.LastIndexByte: index of the last c in s (1-based), 0 when absent.
LastIndexByte(s, c) ==
    IF \E i \in 1..Len(s) : s[i] = c
    THEN CHOOSE i \in 1..Len(s) : s[i] = c /\ \A j \in (i + 1)..Len(s) : s[j] # c
    ELSE 0

\* A variant that also reports an error when p brings the display no complete line.
WriteReturn_DisplayError(p, fo) ==
    [n |-> fo.n, err |-> fo.err \/ LastIndexByte(p, NL) = 0]

WriteReturn_CompleteLines(p, fo) ==
    IF fo.err THEN [n |-> fo.n, err |-> TRUE]
    ELSE [n |-> LastIndexByte(p, NL), err |-> FALSE]

\* return n, fmt.Errorf(...) on a file error; return originalLen, nil otherwise.
WriteReturn(p, fo) ==
    IF fo.err THEN [n |-> fo.n, err |-> TRUE]
    ELSE [n |-> Len(p), err |-> FALSE]

\* A variant that refreshes on every Write.
\* A variant whose display text holds the newest line only.
Refresh_NewestOnly(linesAdded, ring) ==
    [scheduled |-> linesAdded, text |-> Join(SubSeq(ring, Len(ring), Len(ring)), NL)]

Refresh_EveryWrite(linesAdded, ring) == [scheduled |-> TRUE, text |-> Join(ring, NL)]

\* if linesAdded { fullText := strings.Join(lines, "\n"); fyne.Do(...) }
Refresh(linesAdded, ring) ==
    IF linesAdded
    THEN [scheduled |-> TRUE, text |-> Join(ring, NL)]
    ELSE [scheduled |-> FALSE, text |-> <<>>]

\* One Write call; the mutex makes the whole body one step.
Write(p, fo) ==
    /\ nWrites < MaxWrites
    /\ nWrites' = nWrites + 1
    /\ lastP' = p
    /\ fileContent' = FileWrite(fileContent, p, fo)
    /\ ret' = WriteReturn(p, fo)
    /\ accepted' = accepted \o (IF ret'.err THEN SubSeq(p, 1, ret'.n) ELSE p)
    /\ IF fo.err
       THEN /\ refresh' = [scheduled |-> FALSE, text |-> <<>>]
            /\ UNCHANGED <<logBuffer, lines, stream, extracted>>
       ELSE LET r == ExtractLoop(logBuffer \o p, lines, <<>>) IN
            /\ logBuffer' = r.buf
            /\ lines' = r.ring
            /\ extracted' = extracted \o r.got
            /\ stream' = stream \o p
            /\ refresh' = Refresh(r.got # <<>>, r.ring)

WriteOk ==
    /\ \E p \in Chunks : Write(p, [n |-> Len(p), err |-> FALSE])
    /\ UNCHANGED notLogVars

WriteFileError ==
    /\ \E p \in Chunks : \E fo \in FileOutcomes(p) : fo.err /\ Write(p, fo)
    /\ UNCHANGED notLogVars

\* NewLogWriter: an empty file, an empty ring; logBuffer is the zero bytes.Buffer.
LogInit ==
    /\ logBuffer = <<>>
    /\ lines = <<>>
    /\ fileContent = <<>>
    /\ refresh = [scheduled |-> FALSE, text |-> <<>>]
    /\ ret = [n |-> 0, err |-> FALSE]
    /\ lastP = <<>>
    /\ nWrites = 0
    /\ stream = <<>>
    /\ accepted = <<>>
    /\ extracted = <<>>

LogNext == WriteOk \/ WriteFileError

-----------------------------------------------------------------------------
(* runCmd (run.go) *)

\* A text is a sequence of atoms: single bytes, fixed message fragments, and
\* LongBlock, which stands for MaxScanTokenSize bytes none of which is a newline.
LongBlock == "<64KiB>"

\* bufio.MaxScanTokenSize, the buffer limit of the bufio.Scanner that
\* bufio.NewScanner returns.
MaxScanTokenSize == 65536

\* Lines the subprocess may write per stream in one run.
MaxOutLines == 2
MaxErrLines == 2

Streams == {"out", "err"}

MaxLinesOf(r) == IF r = "out" THEN MaxOutLines ELSE MaxErrLines

\* The lines a subprocess writes (without the terminating newline): short
\* lines, a line ending in CR LF on stdout, and an over-long line.
LinesOf(r) ==
    IF r = "out"
    THEN { <<"o">>, <<"w", CR>>, <<LongBlock>> }
    ELSE { <<"e">>, <<"f">>, <<LongBlock>> }

ExitCodes == {0, 1, 3}

\* (printCmd, GOOS, $SHELL set): the branches of run.go:21-56.
RcArgSet ==
    { [printCmd |-> TRUE,  goos |-> "windows", shellSet |-> FALSE],
      [printCmd |-> FALSE, goos |-> "linux",   shellSet |-> FALSE],
      [printCmd |-> TRUE,  goos |-> "darwin",  shellSet |-> TRUE] }

RECURSIVE ByteLen(_)
ByteLen(t) ==
    IF t = <<>> THEN 0
    ELSE (IF Head(t) = LongBlock THEN MaxScanTokenSize ELSE 1) + ByteLen(Tail(t))

\* bufio.Scanner.Scan gives up with ErrTooLong when its buffer, which grows to
\* MaxScanTokenSize bytes at most, is full and holds no newline.
TooLong(line) == ByteLen(line) >= MaxScanTokenSize

\* bufio.dropCR, applied by bufio.ScanLines to every token.
DropCR(line) ==
    IF line # <<>> /\ line[Len(line)] = CR
    THEN SubSeq(line, 1, Len(line) - 1)
    ELSE line

ErrPrefix == <<"E", "R", "R", ":", " ">>

\* fmt.Fprintln(logOutput, scanner.Text()) / fmt.Fprintln(logOutput, "ERR: "+scanner.Text())
ReaderPrefix(r) == IF r = "out" THEN <<>> ELSE ErrPrefix

SinkLine(r, line) == ReaderPrefix(r) \o DropCR(line) \o <<NL>>

StartMarker == <<"--- Running Command ---", NL>>

FinishMarker(code) == <<"--- Command Finished (Exit Code: ", code, ") ---", NL>>

ReadErrorMsg(r) ==
    IF r = "out" THEN <<"Error reading stdout: ", NL>> ELSE <<"Error reading stderr: ", NL>>

\* What runCmd writes before it creates the pipes (run.go:15-56).
Preamble(a) ==
    <<StartMarker>>
    \o (IF a.goos # "windows" /\ ~a.shellSet
        THEN << <<"SHELL env var not set, defaulting to: ", "/bin/sh", NL>> >>
        ELSE <<>>)
    \o (IF a.printCmd
        THEN << <<"Shell: ", NL, "Args: ", NL, "Directory: ", NL>> >>
        ELSE <<>>)

NoError == [kind |-> "nil", code |-> 0]

\* cmd.Wait(): nil for exit status 0, otherwise an *exec.ExitError carrying the status.
WaitError(code) ==
    IF code = 0 THEN NoError ELSE [kind |-> "exit", code |-> code]

\* run.go:15-71: the start marker and preamble, then cmd.StdoutPipe and
\* cmd.StderrPipe; a pipe that cannot be created ends the call.
RcBegin ==
    /\ UNCHANGED notRunVars
    /\ rcPc = "ready"
    /\ \E a \in RcArgSet : \E o \in {"stdoutPipeErr", "stderrPipeErr", "ok"} :
         /\ rcArgs' = a
         /\ IF o = "ok"
            THEN /\ sink' = sink \o Preamble(a)
                 /\ rcPc' = "spawn"
                 /\ pipe' = [r \in Streams |-> [data |-> <<>>, state |-> "open"]]
                 /\ UNCHANGED rcRet
            ELSE /\ sink' = sink \o Preamble(a) \o
                        << <<(IF o = "stdoutPipeErr" THEN "Error creating stdout pipe: "
                                                   ELSE "Error creating stderr pipe: "), NL>> >>
                 /\ rcPc' = "returned"
                 /\ rcRet' = [kind |-> "pipe", code |-> 0]
                 /\ pipe' = [r \in Streams |->
                               [data |-> <<>>,
                                state |-> IF o = "stderrPipeErr" /\ r = "out"
                                          THEN "open" ELSE "none"]]
    /\ UNCHANGED <<proc, wrote, rd>>

\* run.go:73-101: the two reader goroutines are started, then cmd.Start().
\* A failed Start closes both pipes; the readers are running already.
RcSpawn ==
    /\ UNCHANGED notRunVars
    /\ rcPc = "spawn"
    /\ rd' = [r \in Streams |-> "reading"]
    /\ \E ok \in BOOLEAN :
         IF ok
         THEN /\ proc' = [state |-> "running", code |-> 0]
              /\ rcPc' = "running"
              /\ UNCHANGED pipe
         ELSE /\ pipe' = [r \in Streams |-> [data |-> <<>>, state |-> "closed"]]
              /\ rcPc' = "startFailed"
              /\ UNCHANGED proc
    /\ UNCHANGED <<rcArgs, wrote, sink, rcRet>>

\* run.go:98-101: report the failed Start and return, without waiting for the readers.
RcStartFailed ==
    /\ UNCHANGED notRunVars
    /\ rcPc = "startFailed"
    /\ sink' = Append(sink, <<"Error starting command: ", NL>>)
    /\ rcRet' = [kind |-> "start", code |-> 0]
    /\ rcPc' = "returned"
    /\ UNCHANGED <<rcArgs, proc, wrote, pipe, rd>>

\* The bytes an operating-system pipe holds before a write to it blocks
\* (the pipes of run.go:62-71; 64 KiB on Linux).
PipeCapacity == 65536

\* The unread bytes of a pipe: its lines and their newlines.
RECURSIVE PipeBytes(_)
PipeBytes(data) ==
    IF data = <<>> THEN 0
    ELSE ByteLen(Head(data)) + 1 + PipeBytes(Tail(data))

\* The subprocess's write to stream r cannot complete: the reader of r has
\* left its loop (run.go:79-85, 90-96), the read end stays open until
\* cmd.Wait (run.go:105), and more bytes are unread than the pipe holds.
WriteBlocked(r) ==
    /\ rd[r] = "done"
    /\ pipe[r].state = "open"
    /\ PipeBytes(pipe[r].data) > PipeCapacity

ProcBlocked == proc.state = "running" /\ \E r \in Streams : WriteBlocked(r)

\* The subprocess writes one more line to one of its streams.
ProcWrite ==
    /\ UNCHANGED notRunVars
    /\ proc.state = "running"
    /\ ~ProcBlocked
    /\ \E r \in Streams : \E line \in LinesOf(r) :
         /\ Len(wrote[r]) < MaxLinesOf(r)
         /\ wrote' = [wrote EXCEPT ![r] = Append(@, line)]
         /\ pipe' = [pipe EXCEPT ![r].data = Append(@, line)]
    /\ UNCHANGED <<rcPc, rcArgs, proc, rd, sink, rcRet>>

\* The subprocess exits; the write ends of its pipes close.
ProcExit ==
    /\ UNCHANGED notRunVars
    /\ proc.state = "running"
    /\ ~ProcBlocked
    /\ \E c \in ExitCodes : proc' = [state |-> "exited", code |-> c]
    /\ pipe' = [r \in Streams |-> [pipe[r] EXCEPT !.state = "eof"]]
    /\ UNCHANGED <<rcPc, rcArgs, wrote, rd, sink, rcRet>>

\* A variant in which the scanner hands out the newest line of the pipe first.
PipeRead_Newest(data) ==
    [line |-> data[Len(data)], rest |-> SubSeq(data, 1, Len(data) - 1)]

\* scanner.Scan() on the pipe (run.go:78-79, 89-90): the oldest unread line.
PipeRead(data) == [line |-> Head(data), rest |-> Tail(data)]

\* run.go:76-96: one turn of a reader's loop: for scanner.Scan() { Fprintln },
\* or the end of the loop with the scanner.Err() report.
ReaderStep(r) ==
    /\ rd[r] = "reading"
    /\ IF pipe[r].state = "closed"
       THEN /\ sink' = Append(sink, ReadErrorMsg(r))
            /\ rd' = [rd EXCEPT ![r] = "done"]
            /\ UNCHANGED pipe
       ELSE IF pipe[r].data # <<>>
       THEN LET line == PipeRead(pipe[r].data).line IN
            /\ pipe' = [pipe EXCEPT ![r].data = PipeRead(@).rest]
            /\ IF TooLong(line)
               THEN /\ sink' = Append(sink, ReadErrorMsg(r))
                    /\ rd' = [rd EXCEPT ![r] = "done"]
               ELSE /\ sink' = Append(sink, SinkLine(r, line))
                    /\ UNCHANGED rd
       ELSE /\ pipe[r].state = "eof"
            /\ rd' = [rd EXCEPT ![r] = "done"]
            /\ UNCHANGED <<pipe, sink>>
    /\ UNCHANGED <<rcPc, rcArgs, proc, wrote, rcRet>>

ReadStdout == ReaderStep("out") /\ UNCHANGED notRunVars

ReadStderr == ReaderStep("err") /\ UNCHANGED notRunVars

\* run.go:103: wg.Wait()
RcJoin ==
    /\ UNCHANGED notRunVars
    /\ rcPc = "running"
    /\ \A r \in Streams : rd[r] = "done"
    /\ rcPc' = "joined"
    /\ UNCHANGED <<rcArgs, proc, wrote, pipe, rd, sink, rcRet>>

\* run.go:105-107: cmd.Wait(), the completion marker, return err.
RcWait ==
    /\ UNCHANGED notRunVars
    /\ rcPc = "joined"
    /\ proc.state = "exited"
    /\ sink' = Append(sink, FinishMarker(proc.code))
    /\ rcRet' = WaitError(proc.code)
    /\ pipe' = [r \in Streams |-> [pipe[r] EXCEPT !.state = "closed"]]
    /\ rcPc' = "returned"
    /\ UNCHANGED <<rcArgs, proc, wrote, rd>>

RunInit ==
    /\ rcPc = "ready"
    /\ rcArgs = [printCmd |-> FALSE, goos |-> "linux", shellSet |-> TRUE]
    /\ proc = [state |-> "none", code |-> 0]
    /\ wrote = [r \in Streams |-> <<>>]
    /\ pipe = [r \in Streams |-> [data |-> <<>>, state |-> "none"]]
    /\ rd = [r \in Streams |-> "idle"]
    /\ sink = <<>>
    /\ rcRet = NoError

RunNext ==
    \/ RcBegin
    \/ RcSpawn
    \/ RcStartFailed
    \/ ProcWrite
    \/ ProcExit
    \/ ReadStdout
    \/ ReadStderr
    \/ RcJoin
    \/ RcWait

-----------------------------------------------------------------------------
(* Version strings (utils.go) *)

Digits == <<"0", "1", "2", "3", "4", "5", "6", "7", "8", "9">>

IsDigit(c) == \E i \in 1..Len(Digits) : Digits[i] = c

DigitVal(c) == (CHOOSE i \in 1..Len(Digits) : Digits[i] = c) - 1

RECURSIVE Split(_, _)
\* strings.Split(s, sep) for a one-byte separator.
Split(s, sep) ==
    LET i == IndexByte(s, sep) IN
    IF i = 0 THEN <<s>>
    ELSE <<SubSeq(s, 1, i - 1)>> \o Split(SubSeq(s, i + 1, Len(s)), sep)

AllDigits_OrNone(t) == \A i \in 1..Len(t) : IsDigit(t[i])

\* \d+ : one or more decimal digits
AllDigits(t) == t # <<>> /\ \A i \in 1..Len(t) : IsDigit(t[i])

\* regexp.MatchString(`^\d+\.\d+\.\d+$`, version)
isValidVersion(version) ==
    LET parts == Split(version, ".") IN
    Len(parts) = 3 /\ \A i \in 1..3 : AllDigits(parts[i])

RECURSIVE StripZeros(_)
StripZeros(d) ==
    IF Len(d) > 1 /\ Head(d) = "0" THEN StripZeros(Tail(d)) ELSE d

\* The largest int (64 bit) in decimal.
MaxIntDigits ==
    <<"9", "2", "2", "3", "3", "7", "2", "0", "3", "6",
      "8", "5", "4", "7", "7", "5", "8", "0", "7">>

RECURSIVE DigitsGreater(_, _)
\* a > b for digit strings of one length.
DigitsGreater(a, b) ==
    IF a = <<>> THEN FALSE
    ELSE IF DigitVal(Head(a)) # DigitVal(Head(b))
         THEN DigitVal(Head(a)) > DigitVal(Head(b))
         ELSE DigitsGreater(Tail(a), Tail(b))

\* strconv.Atoi(t). An int is kept as its decimal representation (what %d
\* prints), so that values beyond TLC's integers can be told apart.
Atoi(t) ==
    LET signed == t # <<>> /\ Head(t) \in {"+", "-"}
        neg    == t # <<>> /\ Head(t) = "-"
        body   == IF signed THEN Tail(t) ELSE t
        mag    == StripZeros(body)
        \* the negative range reaches one further than the positive one
        over   == \/ Len(mag) > Len(MaxIntDigits)
                  \/ /\ Len(mag) = Len(MaxIntDigits)
                     /\ DigitsGreater(mag, MaxIntDigits)
                     /\ ~(neg /\ mag = SubSeq(MaxIntDigits, 1, Len(MaxIntDigits) - 1) \o <<"8">>)
    IN  IF ~AllDigits(body) \/ over
        THEN [err |-> TRUE, num |-> <<"0">>]
        ELSE [err |-> FALSE,
              num |-> IF neg /\ mag # <<"0">> THEN <<"-">> \o mag ELSE mag]

calculateBuildNumber_Minor(version) ==
    LET parts == Split(version, ".") IN
    IF Len(parts) # 3
    THEN [err |-> TRUE, num |-> <<"0">>, cause |-> "invalid version format (expected X.Y.Z)"]
    ELSE LET a == Atoi(parts[2]) IN
         IF a.err
         THEN [err |-> TRUE, num |-> <<"0">>, cause |-> "invalid patch version part"]
         ELSE [err |-> FALSE, num |-> a.num, cause |-> ""]

\* utils.go:23-33
calculateBuildNumberSimple(version) ==
    LET parts == Split(version, ".") IN
    IF Len(parts) # 3
    THEN [err |-> TRUE, num |-> <<"0">>, cause |-> "invalid version format (expected X.Y.Z)"]
    ELSE LET a == Atoi(parts[3]) IN
         IF a.err
         THEN [err |-> TRUE, num |-> <<"0">>, cause |-> "invalid patch version part"]
         ELSE [err |-> FALSE, num |-> a.num, cause |-> ""]

UpperCase == <<"A", "B", "D", "E", "I", "L", "O", "P", "R", "S", "W">>
LowerCase == <<"a", "b", "d", "e", "i", "l", "o", "p", "r", "s", "w">>

\* strings.ToLower, on the letters the model's strings use.
ToLower(s) ==
    [i \in 1..Len(s) |->
        IF \E k \in 1..Len(UpperCase) : UpperCase[k] = s[i]
        THEN LowerCase[CHOOSE k \in 1..Len(UpperCase) : UpperCase[k] = s[i]]
        ELSE s[i]]

-----------------------------------------------------------------------------
(* The build button and runBuildProcess (main.go, build.go) *)

PlatformAll     == <<"A", "l", "l">>
PlatformAndroid == <<"A", "n", "d", "r", "o", "i", "d">>
PlatformIOS     == <<"i", "O", "S">>

\* What the platform radio group can hold: its three options, nothing, or a
\* value put there by a loaded configuration file.
Platforms ==
    { PlatformAll, PlatformAndroid, PlatformIOS,
      <<"a", "n", "d", "r", "o", "i", "d">>, <<"W", "e", "b">>, <<>> }

Versions ==
    { <<"1", ".", "2", ".", "3", "7">>,
      <<"1", ".", "2">>,
      <<"1", ".", "2", ".", "x">>,
      <<"1", ".", "2", ".">> \o Repeat("9", Len(MaxIntDigits) + 1) }

BuildTypes ==
    { <<"R", "e", "l", "e", "a", "s", "e">>, <<"D", "e", "b", "u", "g">>,
      <<"R", "E", "L", "E", "A", "S", "E">> }

Configs ==
    [ Platform          : Platforms,
      BuildVersion      : Versions,
      SkipDeps          : BOOLEAN,
      SkipUpload        : BOOLEAN,
      DriveFolderID     : { <<>>, <<"f">> },
      GoogleCredentials : { <<>>, <<"c">> },
      BuildType         : BuildTypes,
      Enterprise        : {FALSE} ]

Hosts == {"darwin", "linux"}

Branches == {"main", "develop"}

NoPath == <<>>

\* A procedure made of sub-steps, each of which may fail and end it; cmd is
\* the external command the sub-step starts, if any.
Outcomes(substeps) ==
    { [failed |-> FALSE, cause |-> "",
       cmds |-> SelectSeq([i \in 1..Len(substeps) |-> substeps[i].cmd], LAMBDA c : c # "")] }
    \cup
    { [failed |-> TRUE, cause |-> substeps[k].n,
       cmds |-> SelectSeq([i \in 1..k |-> substeps[i].cmd], LAMBDA c : c # "")]
      : k \in 1..Len(substeps) }

\* build.go:14-49
EnvConstantSubsteps ==
    << [n |-> "failed to read constants file", cmd |-> ""],
       [n |-> "failed to write updated constants file", cmd |-> ""] >>

\* build.go:148-173: npm install, then on macOS pod install unless there is no ios directory.
DepsOutcomes(os) ==
    { [failed |-> TRUE, cause |-> "npm install failed", cmds |-> <<"npm">>] }
    \cup
    (IF os = "darwin"
     THEN { [failed |-> FALSE, cause |-> "", cmds |-> <<"npm">>],
            [failed |-> TRUE, cause |-> "pod install failed", cmds |-> <<"npm", "pod">>],
            [failed |-> FALSE, cause |-> "", cmds |-> <<"npm", "pod">>] }
     ELSE { [failed |-> FALSE, cause |-> "", cmds |-> <<"npm">>] })

\* build.go:176-258
AndroidSubsteps ==
    << [n |-> "failed to create output dir", cmd |-> ""],
       [n |-> "expo prebuild failed", cmd |-> "npx"],
       [n |-> "failed to read build.gradle", cmd |-> ""],
       [n |-> "failed to update build.gradle", cmd |-> ""],
       [n |-> "gradlew script not found", cmd |-> ""],
       [n |-> "gradle build failed", cmd |-> "gradlew"],
       [n |-> "no APK found", cmd |-> ""],
       [n |-> "failed to move APK", cmd |-> ""] >>

\* build.go:261-418; getCurrentGitBranch is called again at build.go:290.
IOSSubsteps ==
    << [n |-> "failed to create dir", cmd |-> ""],
       [n |-> "expo prebuild failed", cmd |-> "npx"],
       [n |-> "failed to read Info.plist", cmd |-> ""],
       [n |-> "failed to determine git branch", cmd |-> "git"],
       [n |-> "failed to update Info.plist", cmd |-> ""],
       [n |-> "ios workspace error", cmd |-> ""],
       [n |-> "xcodebuild archive failed", cmd |-> "xcodebuild"],
       [n |-> "exportOptionsPlist not found", cmd |-> ""],
       [n |-> "xcodebuild exportArchive failed", cmd |-> "xcodebuild"],
       [n |-> "no IPA found", cmd |-> ""],
       [n |-> "failed to move IPA", cmd |-> ""] >>

\* unnamed/part_003:95-246, as far as runBuildProcess sees it.
DriveSubsteps ==
    << [n |-> "APK file not found for upload", cmd |-> ""],
       [n |-> "google credentials file not found", cmd |-> ""],
       [n |-> "failed to get Google token source", cmd |-> ""],
       [n |-> "failed to open APK file", cmd |-> ""],
       [n |-> "failed to execute Google Drive upload request", cmd |-> ""],
       [n |-> "google Drive upload failed with status", cmd |-> ""] >>

\* unnamed/part_003:26-93
TestFlightSubsteps ==
    << [n |-> "IPA file not found for upload", cmd |-> ""],
       [n |-> "altool/xcrun not found", cmd |-> ""],
       [n |-> "apple ID not provided", cmd |-> ""],
       [n |-> "TestFlight upload command failed", cmd |-> "altool"] >>

AndroidArtifact_NoPromotion(c, num, isMain) ==
    <<"dist/android/", "app-">> \o c.BuildVersion \o <<"-">> \o num
        \o <<"-">> \o ToLower(c.BuildType) \o <<".apk">>

\* build.go:243-248
AndroidArtifact(c, num, isMain) ==
    LET lower  == ToLower(c.BuildType)
        suffix == IF isMain /\ lower = <<"r", "e", "l", "e", "a", "s", "e">>
                  THEN <<"p", "r", "o", "d", "u", "c", "t", "i", "o", "n">>
                  ELSE lower
    IN  <<"dist/android/", "app-">> \o c.BuildVersion \o <<"-">> \o num
            \o <<"-">> \o suffix \o <<".apk">>

\* build.go:401-406; the scheme comes from findIOSWorkspaceAndScheme.
IOSArtifact(c, num) ==
    <<"dist/ios/", "scheme", "-">> \o c.BuildVersion \o <<"-">> \o num
        \o <<"-", (IF c.Enterprise THEN "enterprise" ELSE "appstore"), ".ipa">>

platformLower(c) == ToLower(c.Platform)

\* build.go:77
RunsDeps(c) == ~c.SkipDeps

\* build.go:95
RunsAndroid(c) ==
    platformLower(c) \in { ToLower(PlatformAll), ToLower(PlatformAndroid) }

\* build.go:103
WantsIOS(c) ==
    platformLower(c) \in { ToLower(PlatformAll), ToLower(PlatformIOS) }

\* A variant without the check.
InvalidPlatform_Never(c) == FALSE

\* build.go:115
InvalidPlatform(c) ==
    platformLower(c) \notin
        { ToLower(PlatformAll), ToLower(PlatformAndroid), ToLower(PlatformIOS) }

UploadsEnabled_Always(c) == TRUE

\* build.go:120
UploadsEnabled(c) == ~c.SkipUpload

\* A variant that asks for the folder id only.
DriveConfigured_FolderOnly(c) == c.DriveFolderID # <<>>

\* build.go:123
DriveConfigured(c) == ~(c.DriveFolderID = <<>> \/ c.GoogleCredentials = <<>>)

StepOrder ==
    <<"calc", "branch", "env", "deps", "android", "ios", "platform",
      "drive", "testflight", "done">>

PositionOf(step) == CHOOSE i \in 1..Len(StepOrder) : StepOrder[i] = step

Successor_IOSFirst(step) ==
    CASE step = "deps"    -> "ios"
      [] step = "ios"     -> "android"
      [] step = "android" -> "platform"
      [] OTHER            -> StepOrder[PositionOf(step) + 1]

\* The statement that follows a step in runBuildProcess.
Successor(step) == StepOrder[PositionOf(step) + 1]

AfterStep_NoReturn(step, failed) == Successor(step)

\* if err != nil { return fmt.Errorf("...: %w", err) }
AfterStep(step, failed) == IF failed THEN "done" ELSE Successor(step)

\* The message runBuildProcess wraps a step's error in.
WrapMsg(step) ==
    CASE step = "calc"       -> "error calculating build number"
      [] step = "env"        -> "error updating environment constant"
      [] step = "deps"       -> "error installing dependencies"
      [] step = "android"    -> "android build failed"
      [] step = "ios"        -> "ios build failed"
      [] step = "platform"   -> "invalid platform specified"
      [] step = "drive"      -> "google drive upload failed"
      [] step = "testflight" -> "test flight upload failed"
      [] OTHER               -> ""

NoFailure == [failed |-> FALSE, msg |-> "", cause |-> ""]

\* A variant that hands each upload the other platform's artifact.
ArgPath_Swapped(step) ==
    CASE step = "drive"      -> iosArtifactPath
      [] step = "testflight" -> androidArtifactPath
      [] OTHER               -> NoPath

\* The artifact path a step is called with: build.go:127, build.go:135.
ArgPath(step) ==
    CASE step = "drive"      -> androidArtifactPath
      [] step = "testflight" -> iosArtifactPath
      [] OTHER               -> NoPath

\* The artifact path a build step returns: build.go:97, build.go:108.
ReturnedPath(step, o) ==
    CASE step = "android" /\ ~o.failed ->
             AndroidArtifact(cfg, buildNumber, currentBranch = "main")
      [] step = "ios" /\ ~o.failed -> IOSArtifact(cfg, buildNumber)
      [] OTHER -> NoPath

\* A step that was invoked and returned outcome o.
Invoke(step, o) ==
    /\ pPc = step
    /\ calls' = Append(calls, [step |-> step, failed |-> o.failed, cause |-> o.cause,
                               arg |-> ArgPath(step), path |-> ReturnedPath(step, o)])
    /\ launched' = launched \o o.cmds
    /\ pPc' = AfterStep(step, o.failed)
    /\ pRet' = IF o.failed
               THEN [failed |-> TRUE, msg |-> WrapMsg(step), cause |-> o.cause]
               ELSE pRet

\* A step that this run does not invoke.
Skip(step) ==
    /\ pPc = step
    /\ pPc' = Successor(step)
    /\ UNCHANGED <<calls, launched, pRet>>

\* main.go:251-297: validation, then the run starts on its own goroutine.
OnTapped ==
    /\ pPc = "ui"
    /\ pPc' = IF ~isValidVersion(cfg.BuildVersion) \/ cfg.Platform = <<>>
              THEN "rejected" ELSE "calc"
    /\ UNCHANGED <<cfg, goos, calls, launched, buildNumber, currentBranch,
                   androidArtifactPath, iosArtifactPath, pRet>>
    /\ UNCHANGED notPipeVars

\* build.go:54-60
PCalc ==
    /\ LET r == calculateBuildNumberSimple(cfg.BuildVersion) IN
         /\ Invoke("calc", [failed |-> r.err, cause |-> r.cause, cmds |-> <<>>])
         /\ buildNumber' = r.num
    /\ UNCHANGED <<cfg, goos, currentBranch, androidArtifactPath, iosArtifactPath>>
    /\ UNCHANGED notPipeVars

\* build.go:62-69: a failure is a warning, and the branch is "unknown".
PBranch ==
    /\ pPc = "branch"
    /\ \E b \in Branches \cup {"unknown"} :
         /\ currentBranch' = b
         /\ calls' = Append(calls, [step |-> "branch", failed |-> (b = "unknown"),
                                    cause |-> IF b = "unknown"
                                              THEN "failed to get git branch" ELSE "",
                                    arg |-> NoPath, path |-> NoPath])
    /\ launched' = Append(launched, "git")
    /\ pPc' = Successor("branch")
    /\ UNCHANGED <<cfg, goos, buildNumber, androidArtifactPath, iosArtifactPath, pRet>>
    /\ UNCHANGED notPipeVars

\* build.go:71-74
PEnv ==
    /\ \E o \in Outcomes(EnvConstantSubsteps) : Invoke("env", o)
    /\ UNCHANGED <<cfg, goos, buildNumber, currentBranch, androidArtifactPath,
                   iosArtifactPath>>
    /\ UNCHANGED notPipeVars

\* build.go:76-86
PDeps ==
    /\ IF RunsDeps(cfg)
       THEN \E o \in DepsOutcomes(goos) : Invoke("deps", o)
       ELSE Skip("deps")
    /\ UNCHANGED <<cfg, goos, buildNumber, currentBranch, androidArtifactPath,
                   iosArtifactPath>>
    /\ UNCHANGED notPipeVars

\* build.go:95-101
PAndroid ==
    /\ IF RunsAndroid(cfg)
       THEN \E o \in Outcomes(AndroidSubsteps) :
              /\ Invoke("android", o)
              /\ androidArtifactPath' = ReturnedPath("android", o)
       ELSE /\ Skip("android")
            /\ UNCHANGED androidArtifactPath
    /\ UNCHANGED <<cfg, goos, buildNumber, currentBranch, iosArtifactPath>>
    /\ UNCHANGED notPipeVars

\* A variant that builds for iOS on every host.
SupportsIOS_Any(os) == TRUE

\* build.go:104: runtime.GOOS != "darwin" skips the iOS build.
SupportsIOS(os) == os = "darwin"

\* build.go:103-113
PIOS ==
    /\ IF WantsIOS(cfg) /\ SupportsIOS(goos)
       THEN \E o \in Outcomes(IOSSubsteps) :
              /\ Invoke("ios", o)
              /\ iosArtifactPath' = ReturnedPath("ios", o)
       ELSE /\ Skip("ios")
            /\ UNCHANGED iosArtifactPath
    /\ UNCHANGED <<cfg, goos, buildNumber, currentBranch, androidArtifactPath>>
    /\ UNCHANGED notPipeVars

\* build.go:115-117
PPlatform ==
    /\ Invoke("platform", [failed |-> InvalidPlatform(cfg), cause |-> "", cmds |-> <<>>])
    /\ UNCHANGED <<cfg, goos, buildNumber, currentBranch, androidArtifactPath,
                   iosArtifactPath>>
    /\ UNCHANGED notPipeVars

\* build.go:119-131
PDrive ==
    /\ IF UploadsEnabled(cfg) /\ androidArtifactPath # NoPath /\ DriveConfigured(cfg)
       THEN \E o \in Outcomes(DriveSubsteps) : Invoke("drive", o)
       ELSE Skip("drive")
    /\ UNCHANGED <<cfg, goos, buildNumber, currentBranch, androidArtifactPath,
                   iosArtifactPath>>
    /\ UNCHANGED notPipeVars

\* build.go:133-144
PTestFlight ==
    /\ IF UploadsEnabled(cfg) /\ iosArtifactPath # NoPath /\ goos = "darwin"
       THEN \E o \in Outcomes(TestFlightSubsteps) : Invoke("testflight", o)
       ELSE Skip("testflight")
    /\ UNCHANGED <<cfg, goos, buildNumber, currentBranch, androidArtifactPath,
                   iosArtifactPath>>
    /\ UNCHANGED notPipeVars

\* The window before the build button is tapped: any configuration, any host.
PipeInit ==
    /\ cfg \in Configs
    /\ goos \in Hosts
    /\ pPc = "ui"
    /\ calls = <<>>
    /\ launched = <<>>
    /\ buildNumber = <<"0">>
    /\ currentBranch = ""
    /\ androidArtifactPath = NoPath
    /\ iosArtifactPath = NoPath
    /\ pRet = NoFailure

\* Used where the pipeline is not the subject: one configuration, nothing running.
PipeIdle ==
    /\ cfg = CHOOSE c \in Configs : TRUE
    /\ goos = "linux"
    /\ pPc = "ui"
    /\ calls = <<>>
    /\ launched = <<>>
    /\ buildNumber = <<"0">>
    /\ currentBranch = ""
    /\ androidArtifactPath = NoPath
    /\ iosArtifactPath = NoPath
    /\ pRet = NoFailure

PipeNext ==
    \/ OnTapped
    \/ PCalc
    \/ PBranch
    \/ PEnv
    \/ PDeps
    \/ PAndroid
    \/ PIOS
    \/ PPlatform
    \/ PDrive
    \/ PTestFlight

-----------------------------------------------------------------------------
(* The window: the build button, the log view and the goroutines that write
   to the log (main.go, log.go) *)

\* Number of times a run can be started in one behaviour.
MaxRuns == 2

RunIds == 1..MaxRuns

UiThread == <<"ui", 0>>
NoThread == <<"none", 0>>
ReaderThread == <<"reader", 0>>

\* The goroutine main.go:273 starts for run r.
Goroutine(r) == <<"pipeline", r>>

\* The threads that call logWriter.Write: the runs' goroutines, and the reader
\* goroutines of a runCmd that returned without waiting for them.
Writers == { Goroutine(r) : r \in RunIds } \cup {ReaderThread}

TapAccepted_Always(disabled) == TRUE

\* widget.Button.Tapped: a disabled button ignores the tap.
TapAccepted(disabled) == ~disabled

DispatchWaits_Always == TRUE

\* fyne.Do hands the function to the UI thread and returns without waiting.
DispatchWaits == FALSE

ProgressLine == <<"b", NL>>

\* fmt.Fprintf(logWriter, "\n\nBUILD FAILED: %v\n", err) / "\n\nBUILD SUCCEEDED!\n"
ReportText == <<NL, NL, "BUILD", NL>>

\* What thread t writes in the Write call it is in (or about to make).
PendingInput(t) ==
    IF t = ReaderThread THEN ReadErrorMsg("out")
    ELSE IF gPc[t[2]] = "report" THEN ReportText
    ELSE ProgressLine

FileOk(p) == [n |-> Len(p), err |-> FALSE]

\* A Write whose logBuffer was Reset by the UI thread while the call was under
\* way and the bytes of p were lost before the loop read them: nothing is
\* extracted.
WriteRaced(p) ==
    /\ nWrites < MaxWrites
    /\ nWrites' = nWrites + 1
    /\ lastP' = p
    /\ fileContent' = FileWrite(fileContent, p, FileOk(p))
    /\ ret' = WriteReturn(p, FileOk(p))
    /\ accepted' = accepted \o p
    /\ stream' = stream \o p
    /\ logBuffer' = <<>>
    /\ refresh' = Refresh(FALSE, lines)
    /\ UNCHANGED <<lines, extracted>>

\* A variant without the mutex: the bytes of another writer's call may have
\* been written into logBuffer behind this call's first byte.
Buffered_Unlocked(t) ==
    {PendingInput(t)} \cup
    { <<Head(PendingInput(t))>> \o PendingInput(u) \o Tail(PendingInput(t)) :
        u \in Writers \ {t} }

\* log.go:65-78: lw.mu is held from before logBuffer.Write(p) until Write
\* returns, so the bytes the loop finds in logBuffer are those of this call.
Buffered(t) == {PendingInput(t)}

Access(var, op, t) == [var |-> var, op |-> op, thread |-> t, holder |-> lock]

Mutation(widget, op, t, via) == [widget |-> widget, op |-> op, thread |-> t, via |-> via]

\* log.go:65: lw.mu.Lock()
Acquire(t) ==
    /\ lock = NoThread
    /\ wPc[t] = "out"
    /\ nWrites < MaxWrites
    /\ lock' = t
    /\ wPc' = [wPc EXCEPT ![t] = "locked"]
    /\ UNCHANGED logVars
    /\ UNCHANGED <<buttonDisabled, running, started, leftover, uiQueue, display,
                   uiMutations, accesses>>

\* log.go:66-115: the body of Write under the lock, fyne.Do, and the deferred Unlock.
Body(t) ==
    /\ lock = t
    /\ wPc[t] \in {"locked", "lockedReset"}
    /\ \E p \in Buffered(t) :
         \/ Write(p, FileOk(p))
         \/ wPc[t] = "lockedReset" /\ WriteRaced(p)
    /\ accesses' = accesses \cup
          { Access("logBuffer", "Write", t), Access("logBuffer", "ReadString", t) }
          \cup (IF refresh'.scheduled
                THEN { Access("lines", "append", t), Access("lines", "Join", t) }
                ELSE {})
    /\ uiQueue' = IF refresh'.scheduled
                  THEN Append(uiQueue, [text |-> refresh'.text, by |-> t])
                  ELSE uiQueue
    /\ IF DispatchWaits /\ refresh'.scheduled
       THEN /\ wPc' = [wPc EXCEPT ![t] = "await"]
            /\ UNCHANGED lock
       ELSE /\ wPc' = [wPc EXCEPT ![t] = "out"]
            /\ lock' = NoThread
    /\ UNCHANGED <<buttonDisabled, running, started, display, uiMutations>>

\* main.go:251-273: the build button's handler, on the UI thread.
Tap ==
    /\ UNCHANGED notLogUiVars
    /\ TapAccepted(buttonDisabled)
    /\ started < MaxRuns
    /\ gPc[started + 1] = "none"
    \* logBuffer.Reset(), without the lock
    /\ logBuffer' = <<>>
    /\ accesses' = accesses \cup { Access("logBuffer", "Reset", UiThread) }
    /\ wPc' = IF lock # NoThread /\ wPc[lock] = "locked"
              THEN [wPc EXCEPT ![lock] = "lockedReset"] ELSE wPc
    \* logEntry.SetText(""), buildButton.Disable()
    /\ display' = <<>>
    /\ \E valid \in BOOLEAN :
         IF valid
         THEN /\ buttonDisabled' = TRUE
              /\ uiMutations' = uiMutations \cup
                    { Mutation("logEntry", "SetText", UiThread, "handler"),
                      Mutation("buildButton", "Disable", UiThread, "handler") }
              /\ gPc' = [gPc EXCEPT ![started + 1] = "run"]
              /\ running' = running + 1
              /\ started' = started + 1
         ELSE \* validation failed: buildButton.Enable(), return
              /\ buttonDisabled' = FALSE
              /\ uiMutations' = uiMutations \cup
                    { Mutation("logEntry", "SetText", UiThread, "handler"),
                      Mutation("buildButton", "Disable", UiThread, "handler"),
                      Mutation("buildButton", "Enable", UiThread, "handler") }
              /\ UNCHANGED <<gPc, running, started>>
    /\ UNCHANGED <<lines, fileContent, refresh, ret, lastP, nWrites, stream,
                   accepted, extracted>>
    /\ UNCHANGED <<lock, leftover, uiQueue>>

\* The run's goroutine takes the lock for a Write: a line of the run's log, or
\* the report at main.go:289/292.
GLock ==
    /\ UNCHANGED notLogUiVars
    /\ \E r \in RunIds :
         /\ gPc[r] \in {"run", "report"}
         /\ Acquire(Goroutine(r))
    /\ UNCHANGED gPc

GWrite ==
    /\ UNCHANGED notLogUiVars
    /\ \E r \in RunIds :
         /\ gPc[r] \in {"run", "report"}
         /\ Body(Goroutine(r))
         /\ gPc' = IF gPc[r] = "report" THEN [gPc EXCEPT ![r] = "settext"] ELSE gPc
    /\ UNCHANGED leftover

\* main.go:282: runBuildProcess returns. A runCmd whose cmd.Start failed has
\* returned without wg.Wait (run.go:98-101): its readers are still to write.
GReturn ==
    /\ UNCHANGED notLogUiVars
    /\ \E r \in RunIds :
         /\ gPc[r] = "run"
         /\ wPc[Goroutine(r)] = "out"
         /\ gPc' = [gPc EXCEPT ![r] = "report"]
    /\ running' = running - 1
    /\ \E left \in BOOLEAN : leftover' = IF left THEN 1 ELSE leftover
    /\ UNCHANGED logVars
    /\ UNCHANGED <<buttonDisabled, started, lock, wPc, uiQueue, display,
                   uiMutations, accesses>>

\* main.go:290/293: logEntry.SetText(logBuffer.String()), on the run's
\* goroutine and without the lock. A read that races with a Write under way
\* may or may not see that Write's bytes.
GSetText ==
    /\ UNCHANGED notLogUiVars
    /\ \E r \in RunIds :
         /\ gPc[r] = "settext"
         /\ gPc' = [gPc EXCEPT ![r] = "enable"]
         /\ accesses' = accesses \cup { Access("logBuffer", "String", Goroutine(r)) }
         /\ uiMutations' = uiMutations \cup
               { Mutation("logEntry", "SetText", Goroutine(r), "direct") }
         /\ \E seen \in {logBuffer} \cup
                        (IF lock # NoThread
                         THEN {logBuffer \o PendingInput(lock)} ELSE {}) :
              display' = seen
    /\ UNCHANGED logVars
    /\ UNCHANGED <<buttonDisabled, running, started, lock, wPc, leftover, uiQueue>>

\* main.go:275: the deferred buildButton.Enable(), on the run's goroutine.
GEnable ==
    /\ UNCHANGED notLogUiVars
    /\ \E r \in RunIds :
         /\ gPc[r] = "enable"
         /\ gPc' = [gPc EXCEPT ![r] = "done"]
         /\ uiMutations' = uiMutations \cup
               { Mutation("buildButton", "Enable", Goroutine(r), "direct") }
    /\ buttonDisabled' = FALSE
    /\ UNCHANGED logVars
    /\ UNCHANGED <<running, started, lock, wPc, leftover, uiQueue, display, accesses>>

\* run.go:82-84, 93-95: a reader goroutine left behind reports its read error.
RdrLock ==
    /\ UNCHANGED notLogUiVars
    /\ leftover > 0
    /\ Acquire(ReaderThread)
    /\ UNCHANGED gPc

RdrWrite ==
    /\ UNCHANGED notLogUiVars
    /\ Body(ReaderThread)
    /\ leftover' = leftover - 1
    /\ UNCHANGED gPc

\* The UI thread executes the next function handed to fyne.Do (log.go:103-111).
UiDispatch ==
    /\ UNCHANGED notLogUiVars
    /\ uiQueue # <<>>
    /\ display' = Head(uiQueue).text
    /\ uiQueue' = Tail(uiQueue)
    /\ uiMutations' = uiMutations \cup
          { Mutation("logEntry", "SetText", UiThread, "queued"),
            Mutation("logContainer", "Refresh", UiThread, "queued"),
            Mutation("logContainer", "ScrollToBottom", UiThread, "queued") }
    /\ IF wPc[Head(uiQueue).by] = "await"
       THEN /\ wPc' = [wPc EXCEPT ![Head(uiQueue).by] = "out"]
            /\ lock' = NoThread
       ELSE UNCHANGED <<wPc, lock>>
    /\ UNCHANGED logVars
    /\ UNCHANGED <<buttonDisabled, running, started, gPc, leftover, accesses>>

\* main.go:243-248: an empty log view, an enabled button, nothing running.
UiInit ==
    /\ buttonDisabled = FALSE
    /\ running = 0
    /\ started = 0
    /\ gPc = [r \in RunIds |-> "none"]
    /\ lock = NoThread
    /\ wPc = [t \in Writers |-> "out"]
    /\ leftover = 0
    /\ uiQueue = <<>>
    /\ display = <<>>
    /\ uiMutations = {}
    /\ accesses = {}

UiNext ==
    \/ Tap
    \/ GLock
    \/ GWrite
    \/ GReturn
    \/ GSetText
    \/ GEnable
    \/ RdrLock
    \/ RdrWrite
    \/ UiDispatch

-----------------------------------------------------------------------------
(* The version functions on arbitrary input (utils.go) *)

\* Longest version string drawn from VersionAlphabet.
MaxVerLen == 5

VersionAlphabet == {"0", "3", ".", "x", "-"}

\* The inputs: every string over the alphabet up to MaxVerLen bytes, and some
\* longer ones: letters before and after, a sign, a line end, and patch
\* components at the ends of the range of int.
VersionInputs ==
    UNION { [1..n -> VersionAlphabet] : n \in 0..MaxVerLen }
    \cup { <<"1", ".", "2", ".", "3", "7">>,
           <<"v", "1", ".", "2", ".", "3">>,
           <<"1", ".", "2", ".", "3", "a">>,
           <<"1", ".", "2", ".", "3", NL>>,
           <<"1", ".", "2", ".", "+", "5">>,
           <<"1", ".", "2", ".", "0", "0", "7">>,
           <<"1", ".", "2", ".", "3", ".", "4">>,
           <<"1", ".", "2", ".">> \o MaxIntDigits,
           <<"1", ".", "2", ".">> \o SubSeq(MaxIntDigits, 1, Len(MaxIntDigits) - 1) \o <<"8">>,
           <<"1", ".", "2", ".", "-">> \o SubSeq(MaxIntDigits, 1, Len(MaxIntDigits) - 1) \o <<"8">>,
           <<"1", ".", "2", ".", "-">> \o SubSeq(MaxIntDigits, 1, Len(MaxIntDigits) - 1) \o <<"9">>,
           <<"1", ".", "2", ".">> \o Repeat("9", Len(MaxIntDigits) + 1) }

NoResult == [err |-> FALSE, num |-> <<"0">>, cause |-> ""]

\* isValidVersion(vIn)
VApplyValid ==
    /\ UNCHANGED notVerVars
    /\ vPc = "in"
    /\ vValid' = isValidVersion(vIn)
    /\ vPc' = "validated"
    /\ UNCHANGED <<vIn, vOut>>

\* calculateBuildNumberSimple(vIn)
VApplyCalc ==
    /\ UNCHANGED notVerVars
    /\ vPc = "validated"
    /\ vOut' = calculateBuildNumberSimple(vIn)
    /\ vPc' = "done"
    /\ UNCHANGED <<vIn, vValid>>

VerInit ==
    /\ vIn \in VersionInputs
    /\ vPc = "in"
    /\ vValid = FALSE
    /\ vOut = NoResult

VerIdle ==
    /\ vIn = <<>>
    /\ vPc = "in"
    /\ vValid = FALSE
    /\ vOut = NoResult

VerNext == VApplyValid \/ VApplyCalc

-----------------------------------------------------------------------------
(* iOS workspace and scheme detection (utils.go) *)

\* File names are sequences of parts, the last part being the extension.
XcWorkspace == ".xcworkspace"
XcodeProj == ".xcodeproj"

\* The names an ios directory may hold, in the order os.ReadDir lists them
\* (sorted by file name).
IosNames ==
    << <<"Bar", XcWorkspace>>,
       <<"Foo", XcodeProj>>,
       <<"Foo", XcWorkspace>>,
       <<"Podfile">> >>

\* What a name is on disk: a directory (Xcode bundles are directories), a
\* regular file, or not there.
EntryKinds == {"absent", "file", "dir"}

IosDirStates ==
    [readable : BOOLEAN, kinds : [1..Len(IosNames) -> EntryKinds]]

IosOverrides ==
    [ProjectName : {<<>>, <<"Foo">>, <<"Baz">>}, Scheme : {<<>>, <<"S">>}]

HasSuffix(name, ext) == name # <<>> /\ name[Len(name)] = ext

TrimSuffix(name, ext) ==
    IF HasSuffix(name, ext) THEN SubSeq(name, 1, Len(name) - 1) ELSE name

\* filepath.Join(iosDir, name) and filepath.Base of such a path
IosPath(name) == <<"ios", "/">> \o name
Base(path) == SubSeq(path, 3, Len(path))

\* os.ReadDir(iosDir): the entries present, sorted by name
ReadDir(d) ==
    LET Present(i) == d.kinds[i] # "absent"
        RECURSIVE From(_)
        From(i) ==
            IF i > Len(IosNames) THEN <<>>
            ELSE (IF Present(i)
                  THEN << [Name |-> IosNames[i], IsDir |-> d.kinds[i] = "dir"] >>
                  ELSE <<>>) \o From(i + 1)
    IN  From(1)

\* os.Stat(filepath.Join(iosDir, name)) returns no error
StatOk(d, name) ==
    /\ d.readable
    /\ \E i \in 1..Len(IosNames) : IosNames[i] = name /\ d.kinds[i] # "absent"

IosFailure(cause) == [err |-> TRUE, cause |-> cause, workspace |-> <<>>, scheme |-> <<>>]

\* !file.IsDir() && strings.HasSuffix(file.Name(), ext)
Eligible(file, ext) == ~file.IsDir /\ HasSuffix(file.Name, ext)

\* The first entry of the listing that passes the test, as its path; "" if none.
FirstWith(files, ext) ==
    LET hits == SelectSeq(files, LAMBDA f : Eligible(f, ext))
    IN  IF hits = <<>> THEN <<>> ELSE IosPath(hits[1].Name)

\* The "Find Workspace" half: the path, or the failure.
FindWorkspace(d, o) ==
    IF o.ProjectName # <<>>
    THEN IF StatOk(d, o.ProjectName \o <<XcWorkspace>>)
         THEN [err |-> FALSE, path |-> IosPath(o.ProjectName \o <<XcWorkspace>>)]
         ELSE IF StatOk(d, o.ProjectName \o <<XcodeProj>>)
         THEN [err |-> FALSE, path |-> IosPath(o.ProjectName \o <<XcodeProj>>)]
         ELSE [err |-> TRUE, cause |-> "specified ios.project_name does not correspond"]
    ELSE IF ~d.readable
         THEN [err |-> TRUE, cause |-> "failed to read ios directory"]
         ELSE LET files == ReadDir(d)
                  ws == FirstWith(files, XcWorkspace)
                  workspace == IF ws # <<>> THEN ws ELSE FirstWith(files, XcodeProj)
              IN  IF workspace = <<>>
                  THEN [err |-> TRUE, cause |-> "could not find .xcworkspace or .xcodeproj in ios directory"]
                  ELSE [err |-> FALSE, path |-> workspace]

findIOSWorkspaceAndScheme(d, o) ==
    LET w == FindWorkspace(d, o)
    IN  IF w.err THEN IosFailure(w.cause)
        ELSE IF o.Scheme # <<>>
        THEN [err |-> FALSE, cause |-> "", workspace |-> w.path, scheme |-> o.Scheme]
        ELSE LET baseName == Base(w.path)
             IN  IF HasSuffix(baseName, XcWorkspace)
                 THEN [err |-> FALSE, cause |-> "", workspace |-> w.path,
                       scheme |-> TrimSuffix(baseName, XcWorkspace)]
                 ELSE IF HasSuffix(baseName, XcodeProj)
                 THEN [err |-> FALSE, cause |-> "", workspace |-> w.path,
                       scheme |-> TrimSuffix(baseName, XcodeProj)]
                 ELSE IosFailure("could not determine scheme")

NoIosResult == [err |-> FALSE, cause |-> "", workspace |-> <<>>, scheme |-> <<>>]

\* findIOSWorkspaceAndScheme(&config)
IosFind ==
    /\ UNCHANGED notIosVars
    /\ iosPc = "in"
    /\ iosOut' = findIOSWorkspaceAndScheme(iosDirState, iosOverride)
    /\ iosPc' = "done"
    /\ UNCHANGED <<iosDirState, iosOverride>>

IosInit ==
    /\ iosDirState \in IosDirStates
    /\ iosOverride \in IosOverrides
    /\ iosPc = "in"
    /\ iosOut = NoIosResult

IosIdle ==
    /\ iosDirState = [readable |-> TRUE, kinds |-> [i \in 1..Len(IosNames) |-> "absent"]]
    /\ iosOverride = [ProjectName |-> <<>>, Scheme |-> <<>>]
    /\ iosPc = "in"
    /\ iosOut = NoIosResult

IosNext == IosFind

-----------------------------------------------------------------------------
(* The Drive upload: build.go:119-131 and uploadToGoogleDriveWithAPIGUI
   (unnamed/part_003:95-246) *)

\* The configurations that differ in what the upload reads.
DriveConfigs ==
    { c \in Configs : /\ c.Platform = PlatformAndroid
                      /\ c.BuildVersion = <<"1", ".", "2", ".", "3", "7">>
                      /\ c.SkipDeps
                      /\ c.BuildType = <<"D", "e", "b", "u", "g">> }

ApkPath == <<"dist/android/", "app.apk">>

\* apkPath, and what the function finds: the APK, the environment variable
\* GOOGLE_APPLICATION_CREDENTIALS, the credentials file, a token source, and
\* whether the APK can be opened and stat'ed.
DriveWorlds ==
    { w \in [apkPath : {NoPath, ApkPath}, apkExists : BOOLEAN, envCreds : BOOLEAN,
             credsExists : BOOLEAN, tokenOk : BOOLEAN, openOk : BOOLEAN,
             statOk : BOOLEAN] :
        w.apkPath = NoPath => ~w.apkExists }

\* HTTP status codes a response may carry.
DrvStatuses == {200, 201, 403, 500}

NoWriteErr == ""

NoResp == [kind |-> "none", status |-> 0]

DrvOk == [err |-> FALSE, cause |-> "", wrapped |-> "", status |-> 0,
          body |-> FALSE, warned |-> FALSE]

DrvError(cause) == [DrvOk EXCEPT !.err = TRUE, !.cause = cause]

\* part_003:104-110: the config value, else the environment variable.
CredentialsSource(c, w) ==
    IF c.GoogleCredentials # <<>> THEN "config"
    ELSE IF w.envCreds THEN "env"
    ELSE ""

\* part_003:98-135: the checks made before the pipe is created.
Precheck(c, w) ==
    IF ~w.apkExists THEN DrvError("APK file not found for upload")
    ELSE IF CredentialsSource(c, w) = ""
    THEN DrvError("google credentials path not specified")
    ELSE IF ~w.credsExists THEN DrvError("google credentials file not found")
    ELSE IF ~w.tokenOk THEN DrvError("failed to get Google token source")
    ELSE IF ~w.openOk THEN DrvError("failed to open APK file")
    ELSE IF ~w.statOk THEN DrvError("failed to get file info")
    ELSE DrvOk

\* The writes of the writer goroutine, in order, with the error each reports.
WriterStages ==
    << [at |-> "metaPart", cause |-> "failed to create metadata part"],
       [at |-> "metaJSON", cause |-> "failed to write metadata JSON"],
       [at |-> "filePart", cause |-> "failed to create file part"],
       [at |-> "copy",     cause |-> "failed to copy file data to upload stream"] >>

StageIndex(at) == CHOOSE i \in 1..Len(WriterStages) : WriterStages[i].at = at

IsStage(at) == \E i \in 1..Len(WriterStages) : WriterStages[i].at = at

AfterStage(at) ==
    IF StageIndex(at) = Len(WriterStages) THEN "report"
    ELSE WriterStages[StageIndex(at) + 1].at

\* A variant of the return at part_003:216-224 that blames the transport first.
TransportResult_TransportFirst(writerErr) ==
    DrvError("failed to execute Google Drive upload request")

\* part_003:216-224: client.Do returned an error.
TransportResult(writerErr) ==
    IF writerErr # NoWriteErr
    THEN [DrvError("error occurred during upload data preparation")
             EXCEPT !.wrapped = writerErr]
    ELSE DrvError("failed to execute Google Drive upload request")

\* part_003:227-245: client.Do returned a response.
ResponseResult(status, writerErr) ==
    IF writerErr # NoWriteErr /\ status # 200
    THEN [DrvError("error occurred during upload data preparation")
             EXCEPT !.wrapped = writerErr]
    ELSE IF status < 200 \/ status >= 300
    THEN [DrvError("google Drive upload failed with status")
             EXCEPT !.status = status, !.body = TRUE]
    ELSE [DrvOk EXCEPT !.warned = (writerErr # NoWriteErr)]

\* build.go:119-131: the call is made for an Android artifact when uploads
\* are enabled and the folder id and credentials path are both given.
DrvHandleUploads ==
    /\ UNCHANGED notDrvVars
    /\ drvPc = "site"
    /\ drvPc' = IF /\ UploadsEnabled(drvCfg)
                   /\ drvWorld.apkPath # NoPath
                   /\ DriveConfigured(drvCfg)
                THEN "entry" ELSE "skipped"
    /\ UNCHANGED <<drvCfg, drvWorld, drvCreds, drvWriter, drvWriteErr, drvChan,
                   drvPipe, drvResp, drvRet>>

\* part_003:96-215: the checks; then the pipe, the writer goroutine, the
\* request, and the call of client.Do.
DrvPrepare ==
    /\ UNCHANGED notDrvVars
    /\ drvPc = "entry"
    /\ drvCreds' = IF drvWorld.apkExists THEN CredentialsSource(drvCfg, drvWorld) ELSE ""
    /\ LET r == Precheck(drvCfg, drvWorld) IN
         IF r.err
         THEN /\ drvRet' = r
              /\ drvPc' = "returned"
              /\ UNCHANGED <<drvWriter, drvPipe, drvResp>>
         ELSE /\ drvPipe' = [pr |-> "open", pw |-> "open"]
              /\ drvWriter' = WriterStages[1].at
              /\ drvResp' = [kind |-> "pending", status |-> 0]
              /\ drvPc' = "doing"
              /\ UNCHANGED drvRet
    /\ UNCHANGED <<drvCfg, drvWorld, drvWriteErr, drvChan>>

\* A variant in which a failed write ends the goroutine without the send.
OnWriteError_NoSend == "closing"

\* part_003:163-199: each failure path returns, which runs the deferred send
\* of part_003:150-152 first.
OnWriteError == "report"

\* The transport reads the request body.
Reading == drvResp.kind \in {"pending", "response"} /\ drvPipe.pr = "open"

\* part_003:161-201: one write of the goroutine into pw. It goes through while
\* the transport reads; it fails once pr is closed; io.Copy also fails when
\* the APK cannot be read. A failure is stored and closes pw with the error.
WriterWrite ==
    /\ UNCHANGED notDrvVars
    /\ IsStage(drvWriter)
    /\ \/ /\ Reading
          /\ drvWriter' = AfterStage(drvWriter)
          /\ UNCHANGED <<drvWriteErr, drvPipe>>
       \/ /\ drvPipe.pr = "closed" \/ (drvWriter = "copy" /\ Reading)
          /\ drvWriteErr' = WriterStages[StageIndex(drvWriter)].cause
          /\ drvPipe' = [drvPipe EXCEPT !.pw = "closedWithError"]
          /\ drvWriter' = OnWriteError
    /\ UNCHANGED <<drvCfg, drvWorld, drvPc, drvCreds, drvChan, drvResp, drvRet>>

\* part_003:150-152: the deferred send of writeErr, the first deferred call to run.
WriterReport ==
    /\ UNCHANGED notDrvVars
    /\ drvWriter = "report"
    /\ drvChan' = Append(drvChan, drvWriteErr)
    /\ drvWriter' = "closing"
    /\ UNCHANGED <<drvCfg, drvWorld, drvPc, drvCreds, drvWriteErr, drvPipe, drvResp, drvRet>>

\* part_003:145-146: writer.Close() writes the closing boundary (its error is
\* dropped), then pw.Close().
WriterClose ==
    /\ UNCHANGED notDrvVars
    /\ drvWriter = "closing"
    /\ Reading \/ drvPipe.pr = "closed" \/ drvPipe.pw # "open"
    /\ drvPipe' = [drvPipe EXCEPT !.pw = IF @ = "open" THEN "closed" ELSE @]
    /\ drvWriter' = "done"
    /\ UNCHANGED <<drvCfg, drvWorld, drvPc, drvCreds, drvWriteErr, drvChan, drvResp, drvRet>>

\* client.Do fails: no token, no connection, the connection breaks, or the
\* body could not be read.
HttpFail ==
    /\ UNCHANGED notDrvVars
    /\ drvResp.kind = "pending"
    /\ drvResp' = [kind |-> "transport", status |-> 0]
    /\ UNCHANGED <<drvCfg, drvWorld, drvPc, drvCreds, drvWriter, drvWriteErr, drvChan,
                   drvPipe, drvRet>>

\* client.Do returns a response: after the whole body, or before the server
\* has read it all.
HttpRespond ==
    /\ UNCHANGED notDrvVars
    /\ drvResp.kind = "pending"
    /\ \E s \in DrvStatuses : drvResp' = [kind |-> "response", status |-> s]
    /\ UNCHANGED <<drvCfg, drvWorld, drvPc, drvCreds, drvWriter, drvWriteErr, drvChan,
                   drvPipe, drvRet>>

\* The transport closes the request body, on errors too, possibly after
\* client.Do has returned.
HttpCloseBody ==
    /\ UNCHANGED notDrvVars
    /\ drvResp.kind \in {"transport", "response"}
    /\ drvPipe.pr = "open"
    /\ drvPipe' = [drvPipe EXCEPT !.pr = "closed"]
    /\ UNCHANGED <<drvCfg, drvWorld, drvPc, drvCreds, drvWriter, drvWriteErr, drvChan,
                   drvResp, drvRet>>

\* part_003:216-245: client.Do has returned; writerErr := <-uploadErrChan;
\* the result.
DrvFinish ==
    /\ UNCHANGED notDrvVars
    /\ drvPc = "doing"
    /\ drvResp.kind \in {"transport", "response"}
    /\ drvChan # <<>>
    /\ drvChan' = Tail(drvChan)
    /\ drvRet' = IF drvResp.kind = "transport"
                 THEN TransportResult(Head(drvChan))
                 ELSE ResponseResult(drvResp.status, Head(drvChan))
    /\ drvPc' = "returned"
    /\ UNCHANGED <<drvCfg, drvWorld, drvCreds, drvWriter, drvWriteErr, drvPipe, drvResp>>

\* Either runBuildProcess has reached build.go:119 with some configuration
\* and Android artifact path, or the function is applied to arguments as they come.
DrvInit ==
    /\ drvCfg \in DriveConfigs
    /\ drvWorld \in DriveWorlds
    /\ drvPc \in {"site", "entry"}
    /\ drvCreds = ""
    /\ drvWriter = "none"
    /\ drvWriteErr = NoWriteErr
    /\ drvChan = <<>>
    /\ drvPipe = [pr |-> "none", pw |-> "none"]
    /\ drvResp = NoResp
    /\ drvRet = DrvOk

DrvIdle ==
    /\ drvCfg = CHOOSE c \in DriveConfigs : TRUE
    /\ drvWorld = CHOOSE w \in DriveWorlds : TRUE
    /\ drvPc = "site"
    /\ drvCreds = ""
    /\ drvWriter = "none"
    /\ drvWriteErr = NoWriteErr
    /\ drvChan = <<>>
    /\ drvPipe = [pr |-> "none", pw |-> "none"]
    /\ drvResp = NoResp
    /\ drvRet = DrvOk

DrvNext ==
    \/ DrvHandleUploads
    \/ DrvPrepare
    \/ WriterWrite
    \/ WriterReport
    \/ WriterClose
    \/ HttpFail
    \/ HttpRespond
    \/ HttpCloseBody
    \/ DrvFinish

-----------------------------------------------------------------------------
(* The build.gradle patch (build.go:191-214) *)

\* Times the patch is applied to one file in a behaviour.
MaxPatches == 2

VersionCodeKey == "versionCode "
VersionNameKey == "versionName "
Quote == "\""

\* A build.gradle declaring a version code and a version name. The two keys
\* are one atom each; what follows them is text, byte by byte.
GradleFile(code, name) ==
    <<VersionCodeKey>> \o code \o <<NL, VersionNameKey, Quote>> \o name \o <<Quote, NL>>

PlaceholderCode == <<"1">>
PlaceholderName == <<"1", ".", "0">>

GradleCodes == { PlaceholderCode, <<"1", "2">>, <<"3">> }
GradleNames == { PlaceholderName, <<"2", ".", "0">> }

GradleFiles == { GradleFile(c, n) : c \in GradleCodes, n \in GradleNames }

\* (buildNumber, config.BuildVersion) pairs of a run.
PatchArgs ==
    { [num |-> <<"3", "7">>, version |-> <<"1", ".", "2", ".", "3", "7">>],
      [num |-> <<"1", "2">>, version |-> <<"1", ".", "2", ".", "1", "2">>],
      [num |-> <<"5">>,      version |-> <<"1", ".", "0", ".", "5">>] }

HasPrefix(s, old) == Len(old) <= Len(s) /\ SubSeq(s, 1, Len(old)) = old

\* strings.ReplaceAll(s, old, new) for a non-empty old: every non-overlapping
\* occurrence, from the left.
RECURSIVE ReplaceAll(_, _, _)
ReplaceAll(s, old, new) ==
    IF s = <<>> THEN <<>>
    ELSE IF HasPrefix(s, old)
    THEN new \o ReplaceAll(SubSeq(s, Len(old) + 1, Len(s)), old, new)
    ELSE <<Head(s)>> \o ReplaceAll(Tail(s), old, new)

\* build.go:198-208: the two strings.ReplaceAll calls.
PatchContent(content, a) ==
    ReplaceAll(
        ReplaceAll(content, <<VersionCodeKey, "1">>, <<VersionCodeKey>> \o a.num),
        <<VersionNameKey, Quote>> \o PlaceholderName \o <<Quote>>,
        <<VersionNameKey, Quote>> \o a.version \o <<Quote>>)

NoPatch == [failed |-> FALSE, cause |-> "", num |-> <<>>, applied |-> 0]

\* build.go:191-214: read build.gradle, replace, write it back.
GradlePatch ==
    /\ UNCHANGED notGradleVars
    /\ patchCount < MaxPatches
    /\ patchCount' = patchCount + 1
    /\ gradlePrev' = buildGradle
    /\ \E a \in PatchArgs : \E io \in {"ok", "readErr", "writeErr"} :
         /\ buildGradle' = IF io = "ok" THEN PatchContent(buildGradle, a) ELSE buildGradle
         /\ patchRet' = [failed |-> io # "ok",
                         cause |-> CASE io = "readErr"  -> "failed to read build.gradle"
                                     [] io = "writeErr" -> "failed to update build.gradle"
                                     [] OTHER           -> "",
                         num |-> a.num,
                         applied |-> patchRet.applied + (IF io = "ok" THEN 1 ELSE 0)]

GradleInit ==
    /\ buildGradle \in GradleFiles
    /\ gradlePrev = buildGradle
    /\ patchCount = 0
    /\ patchRet = NoPatch

GradleIdle ==
    /\ buildGradle = GradleFile(PlaceholderCode, PlaceholderName)
    /\ gradlePrev = buildGradle
    /\ patchCount = 0
    /\ patchRet = NoPatch

GradleNext == GradlePatch

-----------------------------------------------------------------------------
(* Specifications *)

Init == LogInit /\ RunInit /\ PipeIdle /\ UiInit /\ VerIdle /\ IosIdle /\ DrvIdle /\ GradleIdle

SpecLog == Init /\ [][LogNext]_vars

SpecRun == Init /\ [][RunNext]_vars

\* The Go scheduler runs the reader goroutines and the caller; the subprocess
\* is free to write, to exit or to do neither.
SpecRunFair ==
    /\ SpecRun
    /\ WF_vars(ReadStdout) /\ WF_vars(ReadStderr)
    /\ WF_vars(RcStartFailed) /\ WF_vars(RcJoin) /\ WF_vars(RcWait)

InitPipeline == LogInit /\ RunInit /\ PipeInit /\ UiInit /\ VerIdle /\ IosIdle /\ DrvIdle /\ GradleIdle

SpecPipeline == InitPipeline /\ [][PipeNext]_vars

SpecUi == Init /\ [][UiNext]_vars

InitVersion == LogInit /\ RunInit /\ PipeIdle /\ UiInit /\ VerInit /\ IosIdle /\ DrvIdle /\ GradleIdle

SpecVersion == InitVersion /\ [][VerNext]_vars

InitIos == LogInit /\ RunInit /\ PipeIdle /\ UiInit /\ VerIdle /\ IosInit /\ DrvIdle /\ GradleIdle

SpecIos == InitIos /\ [][IosNext]_vars

InitDrive == LogInit /\ RunInit /\ PipeIdle /\ UiInit /\ VerIdle /\ IosIdle /\ DrvInit /\ GradleIdle

SpecDrive == InitDrive /\ [][DrvNext]_vars

InitGradle ==
    LogInit /\ RunInit /\ PipeIdle /\ UiInit /\ VerIdle /\ IosIdle /\ DrvIdle /\ GradleInit

SpecGradle == InitGradle /\ [][GradleNext]_vars

\* The writer goroutine and the transport's goroutines are scheduled: a step
\* of theirs that stays possible is taken.
SpecDriveFair ==
    /\ SpecDrive
    /\ WF_vars(WriterWrite) /\ WF_vars(WriterReport) /\ WF_vars(WriterClose)
    /\ WF_vars(HttpCloseBody)
    /\ WF_vars(DrvFinish)

-----------------------------------------------------------------------------
(* Properties of the log sink *)

RECURSIVE Segments(_)
\* The newline-terminated segments of s, each with trailing CR/LF stripped.
Segments(s) ==
    LET i == IndexByte(s, NL) IN
    IF i = 0 THEN <<>>
    ELSE <<TrimRight(SubSeq(s, 1, i))>> \o Segments(SubSeq(s, i + 1, Len(s)))

\* The bytes of s that follow its last newline.
PartialTail(s) == SubSeq(s, LastIndexByte(s, NL) + 1, Len(s))

IsPrefix(a, b) == Len(a) <= Len(b) /\ SubSeq(b, 1, Len(a)) = a

LastN(s, n) == IF Len(s) <= n THEN s ELSE SubSeq(s, Len(s) - n + 1, Len(s))

RECURSIVE CountByte(_, _)
CountByte(s, c) ==
    IF s = <<>> THEN 0
    ELSE (IF Head(s) = c THEN 1 ELSE 0) + CountByte(Tail(s), c)

\* C1: the lines extracted so far are exactly the newline-terminated segments
\* of the concatenation of all bytes written (as many lines as newlines, each
\* equal to its segment with trailing CR/LF stripped), however the bytes were
\* split into Write calls.
C1_ExtractedEqualsSegments ==
    /\ Len(extracted) = CountByte(stream, NL)
    /\ extracted = Segments(stream)

\* C2: when a successful Write returns and its input did not end in a newline,
\* logBuffer holds the bytes after the last newline received so far; and the
\* first line a later Write extracts begins with the bytes that were pending.
C2_PartialLineKept ==
    [][ (nWrites' = nWrites + 1 /\ ~ret'.err) =>
          /\ (lastP' # <<>> /\ lastP'[Len(lastP')] # NL)
                => logBuffer' = PartialTail(stream')
          /\ (Len(extracted') > Len(extracted))
                => IsPrefix(TrimRight(PartialTail(stream)),
                            extracted'[Len(extracted) + 1]) ]_vars

\* C3: the ring never holds more than maxLogLines lines between Write calls,
\* and no text handed to the UI holds more than maxLogLines lines.
C3_RingBounded ==
    /\ Len(lines) <= maxLogLines
    /\ refresh.scheduled => CountByte(refresh.text, NL) + 1 <= maxLogLines

C3_Witness ==
    /\ Len(lines) = maxLogLines
    /\ Len(extracted) > maxLogLines
    /\ refresh.scheduled

\* C4: eviction is first-in first-out: the ring is always the last
\* min(maxLogLines, n) of the n lines extracted so far, in extraction order.
C4_RingIsNewestLines == lines = LastN(extracted, maxLogLines)

C4_Witness ==
    /\ Len(extracted) = maxLogLines + 2
    /\ lines = SubSeq(extracted, 3, Len(extracted))
    /\ lines[1] # extracted[1]

\* C5: a Write that returns no error returns the length of its input.
C5_ReturnsInputLength ==
    (nWrites > 0 /\ ~ret.err) => ret.n = Len(lastP)

C5_Witness ==
    /\ nWrites > 0 /\ ~ret.err
    /\ Len(extracted) > maxLogLines
    /\ Len(lastP) > 1 /\ ret.n = Len(lastP)
    /\ lastP[Len(lastP)] # NL

\* C6 (as claimed): the log file holds exactly the bytes of the successful
\* Write calls, in lock order.
C6_FileEqualsSuccessfulWrites == fileContent = stream

\* C6 (amended): the log file holds, in lock order, the bytes of every
\* successful Write and, for every failed Write, the first n bytes of its
\* input, n being the count that Write returned.
C6_FileEqualsAcceptedBytes == fileContent = accepted

C6_Witness ==
    /\ fileContent # stream
    /\ ~ret.err /\ nWrites = MaxWrites
    /\ Len(extracted) > Len(lines)

-----------------------------------------------------------------------------
(* Properties of runCmd *)

InSink(w) == \E i \in 1..Len(sink) : sink[i] = w

\* C7: when the command has exited with a non-zero status and runCmd has
\* returned, runCmd returned a failure carrying that status, every line the
\* subprocess wrote to stdout is in the sink as written, and every line it
\* wrote to stderr is in the sink prefixed with "ERR: ".
C7_NonZeroExitReported ==
    (rcPc = "returned" /\ proc.state = "exited" /\ proc.code # 0) =>
        /\ rcRet = [kind |-> "exit", code |-> proc.code]
        /\ \A i \in 1..Len(wrote["out"]) :
              InSink(DropCR(wrote["out"][i]) \o <<NL>>)
        /\ \A i \in 1..Len(wrote["err"]) :
              InSink(ErrPrefix \o DropCR(wrote["err"][i]) \o <<NL>>)

-----------------------------------------------------------------------------
(* Properties of runBuildProcess *)

Count(step) == Cardinality({ i \in 1..Len(calls) : calls[i].step = step })

AndroidOnlyRun ==
    /\ pPc = "done"
    /\ cfg.SkipDeps /\ cfg.SkipUpload
    /\ cfg.Platform = PlatformAndroid

\* C8 (as claimed): a finished run with skip_deps, skip_upload and platform
\* "Android" has invoked the Android build exactly once, and neither the
\* dependency installation, nor the iOS build, nor an upload.
C8_AndroidOnlyRunBuildsOnce ==
    AndroidOnlyRun =>
        /\ Count("android") = 1
        /\ Count("deps") = 0 /\ Count("ios") = 0
        /\ Count("drive") = 0 /\ Count("testflight") = 0

\* C8 (amended): such a run has invoked the Android build exactly once, unless
\* it ended before the build because the build number could not be computed or
\* the environment constant could not be updated, and then not at all; it has
\* invoked neither the dependency installation, nor the iOS build, nor an upload.
C8_AndroidOnlyRunBuildsOnceUnlessEndedEarly ==
    AndroidOnlyRun =>
        /\ Count("android") =
              IF pRet.failed /\ pRet.msg \in {WrapMsg("calc"), WrapMsg("env")}
              THEN 0 ELSE 1
        /\ Count("deps") = 0 /\ Count("ios") = 0
        /\ Count("drive") = 0 /\ Count("testflight") = 0

C8_Witness ==
    /\ AndroidOnlyRun
    /\ Count("android") = 1
    /\ androidArtifactPath # NoPath
    /\ DriveConfigured(cfg)
    /\ ~pRet.failed

\* C9: the steps invoked in a run appear in the order build number, branch,
\* (environment constant,) dependencies, Android, iOS, platform check, Drive,
\* TestFlight, and none of them twice.
C9_StepsInOrder ==
    \A i, j \in 1..Len(calls) :
        i < j => PositionOf(calls[i].step) < PositionOf(calls[j].step)

C9_Witness ==
    /\ pPc = "done"
    /\ \A st \in {"calc", "branch", "deps", "android", "ios", "platform",
                  "drive", "testflight"} : Count(st) = 1

FatalSteps == {"deps", "android", "ios", "drive", "testflight"}

\* C10: a failed dependency installation, build or upload is the last step of
\* its run: the run is over, and its error is that step's error wrapped in the
\* message that names the step.
C10_ShortCircuit ==
    \A i \in 1..Len(calls) :
        (calls[i].step \in FatalSteps /\ calls[i].failed) =>
            /\ i = Len(calls)
            /\ pPc = "done"
            /\ pRet = [failed |-> TRUE, msg |-> WrapMsg(calls[i].step),
                       cause |-> calls[i].cause]

C10_Witness ==
    /\ pPc = "done"
    /\ calls # <<>>
    /\ calls[Len(calls)].step = "android" /\ calls[Len(calls)].failed
    /\ cfg.Platform = PlatformAll /\ goos = "darwin"
    /\ ~cfg.SkipUpload /\ DriveConfigured(cfg)
    /\ pRet.msg = "android build failed"

\* C11: in a run whose build version or platform is invalid no subprocess
\* (git, npm, pod, npx, gradlew, xcodebuild) has been started.
C11_NoSubprocessOnInvalidInput ==
    (~isValidVersion(cfg.BuildVersion) \/ InvalidPlatform(cfg)) => launched = <<>>

\* C12: a failure to determine the branch never ends a run: after a failed
\* branch resolution the branch is "unknown" and the run goes on, and no run
\* returns a failure caused by the branch being undeterminable.
C12_BranchFailureNeverAborts ==
    /\ \A i \in 1..Len(calls) :
          (calls[i].step = "branch" /\ calls[i].failed) =>
              /\ currentBranch = "unknown"
              /\ (i = Len(calls) => pPc # "done")
    /\ ~(pRet.failed /\ pRet.cause = "failed to determine git branch")

\* C13: in a finished run with platform "All" on a host that can build both
\* platforms, a failed build of one platform leaves the other platform's
\* build invoked all the same.
C13_BuildsIndependent ==
    ( /\ pPc = "done"
      /\ ToLower(cfg.Platform) = ToLower(PlatformAll)
      /\ goos = "darwin"
      /\ \E i \in 1..Len(calls) :
            calls[i].step \in {"android", "ios"} /\ calls[i].failed )
    => (Count("android") = 1 /\ Count("ios") = 1)

-----------------------------------------------------------------------------
(* Properties of the window *)

\* C14: at most one call of runBuildProcess is in flight at any time.
C14_OneRunAtATime == running <= 1

C14_Witness ==
    /\ started = 2
    /\ running = 1
    /\ buttonDisabled
    /\ gPc[1] = "done"

\* C15: every UI mutation is made by the UI thread; no goroutine of a run
\* changes the log view or the build button directly.
C15_UiMutationsOnUiThread ==
    \A m \in uiMutations : m.thread = UiThread

\* C16: every access to logBuffer and to lines is made by a thread that holds
\* the sink's lock at that moment.
C16_AccessesUnderLock ==
    \A a \in accesses : a.holder = a.thread

-----------------------------------------------------------------------------
(* Properties of the version functions *)

\* An optional sign followed by at least one decimal digit.
IsInteger(t) ==
    LET body == IF t # <<>> /\ Head(t) \in {"+", "-"} THEN Tail(t) ELSE t
    IN  body # <<>> /\ \A i \in 1..Len(body) : body[i] \in {"0", "1", "2", "3", "4", "5", "6", "7", "8", "9"}

\* The magnitude of an integer literal, without sign and leading zeros.
Magnitude(t) == StripZeros(IF Head(t) \in {"+", "-"} THEN Tail(t) ELSE t)

\* The decimal representation of the integer that the literal t denotes.
Canonical(t) ==
    IF Head(t) = "-" /\ Magnitude(t) # <<"0">> THEN <<"-">> \o Magnitude(t) ELSE Magnitude(t)

RECURSIVE NatValue(_)
\* The number a short run of digits denotes.
NatValue(d) ==
    IF d = <<>> THEN 0 ELSE 10 * NatValue(SubSeq(d, 1, Len(d) - 1)) + DigitVal(d[Len(d)])

\* The literal denotes a number in -2^63 .. 2^63 - 1.
FitsInt(t) ==
    \/ Len(Magnitude(t)) < Len(MaxIntDigits)
    \/ /\ Len(Magnitude(t)) = Len(MaxIntDigits)
       /\ \/ ~DigitsGreater(Magnitude(t), MaxIntDigits)
          \/ Canonical(t) = <<"-">> \o SubSeq(MaxIntDigits, 1, Len(MaxIntDigits) - 1) \o <<"8">>

\* The result is the integer the literal t denotes.
IsValueOf(out, t) ==
    /\ ~out.err
    /\ out.num = Canonical(t)
    /\ Len(Magnitude(t)) <= 6 => NatValue(Magnitude(out.num)) = NatValue(Magnitude(t))

RECURSIVE ThreeRuns(_, _, _)
\* Reads s from left to right: runs counts the digit runs finished or under
\* way (1..3), inRun tells whether the last byte read was a digit.
ThreeRuns(s, runs, inRun) ==
    IF s = <<>> THEN runs = 3 /\ inRun
    ELSE IF Head(s) \in {"0", "1", "2", "3", "4", "5", "6", "7", "8", "9"}
         THEN ThreeRuns(Tail(s), IF inRun THEN runs ELSE runs + 1, TRUE)
         ELSE IF Head(s) = "." /\ inRun /\ runs < 3
              THEN ThreeRuns(Tail(s), runs, FALSE)
              ELSE FALSE

\* C19: isValidVersion accepts a string exactly when it is three non-empty
\* runs of decimal digits separated by single dots, with nothing before or after.
C19_AcceptsExactlyThreeRuns ==
    vPc # "in" => (vValid <=> ThreeRuns(vIn, 0, FALSE))

C19_Witness ==
    /\ vPc # "in"
    /\ vValid
    /\ vIn = <<"0", ".", "0", ".", "3">>

-----------------------------------------------------------------------------
(* Properties of the artifact names *)

BuildTypeRelease == <<"r", "e", "l", "e", "a", "s", "e">>

\* The build types of the model in lower case, spelled out.
LowerBuildType ==
    CASE cfg.BuildType = <<"R", "e", "l", "e", "a", "s", "e">> -> BuildTypeRelease
      [] cfg.BuildType = <<"R", "E", "L", "E", "A", "S", "E">> -> BuildTypeRelease
      [] cfg.BuildType = <<"D", "e", "b", "u", "g">>           -> <<"d", "e", "b", "u", "g">>

\* C20: the Android artifact is app-{version}-{buildNumber}-{channel}.apk,
\* where the channel is "production" exactly when the lowercased build type is
\* "release" and the branch is main, and the lowercased build type otherwise.
C20_AndroidChannelSuffix ==
    androidArtifactPath # NoPath =>
        androidArtifactPath =
            <<"dist/android/", "app-">> \o cfg.BuildVersion \o <<"-">> \o buildNumber \o <<"-">>
            \o (IF LowerBuildType = BuildTypeRelease /\ currentBranch = "main"
                THEN <<"p", "r", "o", "d", "u", "c", "t", "i", "o", "n">>
                ELSE LowerBuildType)
            \o <<".apk">>

C20_Witness ==
    /\ androidArtifactPath # NoPath
    /\ cfg.BuildType = <<"R", "E", "L", "E", "A", "S", "E">>
    /\ currentBranch = "main"
    /\ androidArtifactPath[Len(androidArtifactPath) - 1] = "n"

-----------------------------------------------------------------------------
(* Properties of the iOS workspace detection *)

\* The bundles of one kind in the ios directory: directories with the extension.
Bundles(d, ext) ==
    { i \in 1..Len(IosNames) : d.kinds[i] = "dir" /\ HasSuffix(IosNames[i], ext) }

\* The directory holds nothing with an Xcode extension but bundles.
OnlyBundles(d) ==
    \A i \in 1..Len(IosNames) :
        (HasSuffix(IosNames[i], XcWorkspace) \/ HasSuffix(IosNames[i], XcodeProj))
            => d.kinds[i] \in {"absent", "dir"}

AutoDetected ==
    /\ iosPc = "done"
    /\ iosOverride.ProjectName = <<>>
    /\ iosOverride.Scheme = <<>>
    /\ iosDirState.readable
    /\ OnlyBundles(iosDirState)

\* C21: auto-detection without overrides returns the project's path and its
\* name as scheme for a directory holding only a .xcodeproj bundle, returns a
\* workspace when the directory holds a .xcworkspace bundle too, and fails only
\* when the directory holds neither.
C21_AutoDetectFindsBundles ==
    AutoDetected =>
        LET ws == Bundles(iosDirState, XcWorkspace)
            pj == Bundles(iosDirState, XcodeProj)
        IN  /\ ws # {} =>
                /\ ~iosOut.err
                /\ \E i \in ws : /\ iosOut.workspace = IosPath(IosNames[i])
                                 /\ iosOut.scheme = TrimSuffix(IosNames[i], XcWorkspace)
            /\ (ws = {} /\ pj # {}) =>
                /\ ~iosOut.err
                /\ \E i \in pj : /\ iosOut.workspace = IosPath(IosNames[i])
                                 /\ iosOut.scheme = TrimSuffix(IosNames[i], XcodeProj)
            /\ iosOut.err => (ws = {} /\ pj = {})

-----------------------------------------------------------------------------
(* Properties of runCmd: order of output and exit paths *)

IsFinishMarker(w) == \E c \in ExitCodes : w = FinishMarker(c)

FinishPositions == { i \in 1..Len(sink) : IsFinishMarker(sink[i]) }

\* The sink entries that are lines of the subprocess, as the readers write them.
IsOutputLine(w) ==
    \E r \in Streams : \E k \in 1..Len(wrote[r]) : w = SinkLine(r, wrote[r][k])

\* cmd.Wait and the completion marker come after both readers have finished.
WaitAfterReaders ==
    (rcPc = "joined" \/ FinishPositions # {}) => \A r \in Streams : rd[r] = "done"

\* Output lines lie after the start marker and before the completion marker.
OutputBetweenMarkers ==
    \A i \in 1..Len(sink) :
        IsOutputLine(sink[i]) =>
            /\ i > 1 /\ sink[1] = StartMarker
            /\ \A j \in FinishPositions : i < j

\* When runCmd has returned after the process exited, every line the process
\* wrote is in the sink.
AllOutputDelivered ==
    (rcPc = "returned" /\ proc.state = "exited") =>
        \A r \in Streams : \A k \in 1..Len(wrote[r]) : InSink(SinkLine(r, wrote[r][k]))

\* C22: the wait on process exit and the completion marker happen only after
\* both readers have finished; every output line in the sink lies after the
\* start marker and before the completion marker; and every line the
\* subprocess wrote before exiting is in the sink when runCmd has returned.
C22_OutputCompleteBetweenMarkers ==
    /\ WaitAfterReaders
    /\ OutputBetweenMarkers
    /\ AllOutputDelivered

\* C23: every call of runCmd that has returned, by whichever exit path, has
\* written the start marker and, after it, a completion marker carrying the
\* exit code.
C23_MarkersOnEveryExitPath ==
    rcPc = "returned" =>
        /\ sink # <<>> /\ sink[1] = StartMarker
        /\ \E j \in FinishPositions : j > 1

\* When runCmd has returned, the pipes it created are closed and the readers
\* it started have ended.
RunCmdReleased ==
    rcPc = "returned" =>
        \A r \in Streams : /\ pipe[r].state \in {"none", "closed"}
                           /\ rd[r] \in {"idle", "done"}

DriveReturnedWithPipe == drvPc = "returned" /\ drvPipe.pr # "none"

\* When the upload function has returned, both ends of the request pipe are closed.
DrivePipeClosed ==
    DriveReturnedWithPipe => (drvPipe.pr = "closed" /\ drvPipe.pw # "open")

\* A writer goroutine that has not ended after the function returned is not
\* blocked for good: it can take a step, or the transport is about to close
\* the read end.
DriveWriterNotStuck ==
    (DriveReturnedWithPipe /\ drvWriter # "done") =>
        ENABLED (WriterWrite \/ WriterReport \/ WriterClose \/ HttpCloseBody)

\* After the function has returned, the writer ends and both ends get closed.
DriveWriterTerminates ==
    DriveReturnedWithPipe ~>
        (drvWriter = "done" /\ drvPipe.pr = "closed" /\ drvPipe.pw # "open")

\* C24: when runCmd has returned, both pipes it created are closed and both
\* readers have ended; when the Drive upload function has returned, both
\* ends of the request pipe are closed and the writer goroutine has ended or
\* is not blocked for good.
C24_ReleasedOnEveryExitPath ==
    /\ RunCmdReleased
    /\ DrivePipeClosed
    /\ DriveWriterNotStuck

-----------------------------------------------------------------------------
(* Properties of LogWriter.Write: failures and refreshes *)

\* C25: a Write whose file write fails returns an error, leaves logBuffer and
\* the ring as they were and schedules no refresh; a Write whose file write
\* succeeds returns no error, whatever happens to the display side.
C25_FileErrorLeavesDisplayAlone ==
    [][ /\ WriteFileError =>
            /\ ret'.err
            /\ logBuffer' = logBuffer /\ lines' = lines
            /\ ~refresh'.scheduled
        /\ WriteOk => ~ret'.err ]_vars

\* A failed Write that carried a complete line, after lines were shown.
C25_Witness ==
    /\ ret.err /\ nWrites > 1
    /\ LastIndexByte(lastP, NL) > 0
    /\ lines # <<>> /\ ~refresh.scheduled

\* C26: a Write schedules a refresh exactly when it appended at least one
\* complete line to the ring, and the text of that refresh is the ring at the
\* end of the Write, joined with newlines.
C26_RefreshIffLineExtracted ==
    [][ nWrites' = nWrites + 1 =>
            /\ refresh'.scheduled <=> (extracted' # extracted)
            /\ refresh'.scheduled => refresh'.text = Join(lines', NL) ]_vars

\* A Write that extracted a line after older lines had been evicted: the
\* refresh carries the ring, not everything written.
C26_Witness ==
    /\ refresh.scheduled
    /\ Len(lines) = maxLogLines /\ Len(extracted) > Len(lines)
    /\ refresh.text = Join(lines, NL)

-----------------------------------------------------------------------------
(* Properties of runBuildProcess: uploads *)

IsUpload(step) == step \in {"drive", "testflight"}

\* The build steps this run makes: build.go:95, build.go:103-104.
SelectedBuilds ==
    (IF RunsAndroid(cfg) THEN {"android"} ELSE {})
    \cup (IF WantsIOS(cfg) /\ goos = "darwin" THEN {"ios"} ELSE {})

BuildOf(upload) == IF upload = "drive" THEN "android" ELSE "ios"

\* C27: an upload step is invoked only after every build step of the run has
\* returned successfully, and with the non-empty artifact path that the
\* matching build step returned; TestFlight only on a macOS host.
C27_UploadsAfterBuildsWithTheirArtifact ==
    \A i \in 1..Len(calls) :
        IsUpload(calls[i].step) =>
            /\ \A b \in SelectedBuilds :
                  \E j \in 1..(i - 1) : calls[j].step = b /\ ~calls[j].failed
            /\ \A j \in 1..(i - 1) :
                  calls[j].step \in {"android", "ios"} => ~calls[j].failed
            /\ calls[i].arg # NoPath
            /\ \E j \in 1..(i - 1) :
                  /\ calls[j].step = BuildOf(calls[i].step)
                  /\ calls[j].path = calls[i].arg
            /\ calls[i].step = "testflight" => goos = "darwin"

\* A finished run that built both platforms and made both uploads.
C27_Witness ==
    /\ pPc = "done" /\ ~pRet.failed
    /\ Count("drive") = 1 /\ Count("testflight") = 1
    /\ androidArtifactPath # iosArtifactPath

-----------------------------------------------------------------------------
(* Properties of the Drive upload *)

CredentialsNotSpecified(r) ==
    r.err /\ r.cause = "google credentials path not specified"

\* C28: with uploads enabled and an Android artifact, runBuildProcess skips
\* the Drive upload, without failing, when the folder id or the credentials
\* path of the config is empty; the upload function takes the credentials
\* path from the config, else from GOOGLE_APPLICATION_CREDENTIALS, and its
\* resolution fails only when both are absent.
C28_DriveSkippedOrCredentialsResolved ==
    [][ /\ ( /\ drvPc = "site"
             /\ ~drvCfg.SkipUpload /\ drvWorld.apkPath # NoPath
             /\ (drvCfg.DriveFolderID = <<>> \/ drvCfg.GoogleCredentials = <<>>) )
           => (drvPc' = "skipped" /\ ~drvRet'.err)
        /\ (drvPc = "entry" /\ drvWorld.apkExists)
           => /\ drvCfg.GoogleCredentials # <<>> => drvCreds' = "config"
              /\ (drvCfg.GoogleCredentials = <<>> /\ drvWorld.envCreds) => drvCreds' = "env"
              /\ CredentialsNotSpecified(drvRet')
                    <=> (drvCfg.GoogleCredentials = <<>> /\ ~drvWorld.envCreds) ]_vars

\* The pipeline skipped the upload for want of a credentials path in the
\* config, although the environment variable was set.
C28_Witness ==
    /\ drvPc = "skipped"
    /\ ~drvCfg.SkipUpload /\ drvWorld.apkPath # NoPath /\ drvWorld.apkExists
    /\ drvCfg.DriveFolderID # <<>> /\ drvCfg.GoogleCredentials = <<>>
    /\ drvWorld.envCreds
    /\ ~drvRet.err

TransportFailed == drvPc = "returned" /\ drvResp.kind = "transport"

\* C29: when client.Do failed at transport level and the writer goroutine
\* reported an error, the function returns the writer's error; it returns the
\* transport failure only when the writer reported none.
C29_WriterErrorBeforeTransportError ==
    TransportFailed =>
        /\ drvWriteErr # NoWriteErr =>
              /\ drvRet.err
              /\ drvRet.cause = "error occurred during upload data preparation"
              /\ drvRet.wrapped = drvWriteErr
        /\ drvRet.cause = "failed to execute Google Drive upload request" =>
              drvWriteErr = NoWriteErr

\* The connection broke while the APK was being copied: both sides failed.
C29_Witness ==
    /\ TransportFailed
    /\ drvWriteErr = "failed to copy file data to upload stream"
    /\ drvRet.wrapped = drvWriteErr

ResponseReceived == drvPc = "returned" /\ drvResp.kind = "response"

\* C30: when a response was received, a status outside 200..299 is returned
\* as a failure carrying the status code and the response body, whether or
\* not the writer reported an error, and any 2xx status is a success.
C30_StatusDecidesResult ==
    ResponseReceived =>
        IF drvResp.status \in 200..299
        THEN ~drvRet.err
        ELSE /\ drvRet.err
             /\ drvRet.status = drvResp.status
             /\ drvRet.body

\* Values sent on uploadErrChan so far: those in the channel and the one main
\* has received.
Received == IF DriveReturnedWithPipe THEN 1 ELSE 0

Sent == Len(drvChan) + Received

WriterEnded == drvWriter \in {"closing", "done"}

AwaitingWriter == drvPc = "doing" /\ drvResp.kind \in {"transport", "response"}

\* The channel never holds more than its one slot, the writer has sent exactly
\* one value once it is past its deferred send and none before, and main has
\* received at most that one.
OneSendOnChannel ==
    /\ Len(drvChan) <= 1
    /\ WriterEnded => Sent = 1
    /\ (drvWriter # "none" /\ ~WriterEnded) => Sent = 0
    /\ Received <= Sent

\* C31: the writer goroutine sends exactly one value on uploadErrChan on each
\* of its exit paths, the send finds the slot free, main receives at most
\* once, and main's receive is always served: once client.Do has returned,
\* the function returns.
C31_ChannelNeverDeadlocks ==
    /\ []OneSendOnChannel
    /\ (AwaitingWriter ~> drvPc = "returned")

\* Main is waiting on the channel while the writer is blocked on a pipe that
\* the transport no longer reads and has not closed yet.
C31_Witness ==
    /\ AwaitingWriter /\ drvChan = <<>>
    /\ drvResp.kind = "transport" /\ drvPipe.pr = "open"
    /\ drvWriter = "copy"

-----------------------------------------------------------------------------
(* Properties of the build.gradle patch *)

\* What a build.gradle declares: the text after each key.
DeclaredCode(content) == SubSeq(content, 2, IndexByte(content, NL) - 1)

DeclaredName(content) ==
    SubSeq(content, IndexByte(content, Quote) + 1, LastIndexByte(content, Quote) - 1)

PlaceholderChanged(content) ==
    /\ DeclaredCode(content) # PlaceholderCode
    /\ DeclaredName(content) # PlaceholderName

Patched == patchCount > 0 /\ ~patchRet.failed

\* C32: a patch applied to a build.gradle that no longer declares version
\* code 1 and version name "1.0" leaves the file as it was; so a second
\* application, with any build number, leaves the result of the first as it was.
C32_PatchIsNoOpOncePatched ==
    Patched =>
        /\ PlaceholderChanged(gradlePrev) => buildGradle = gradlePrev
        /\ patchRet.applied = 2 => buildGradle = gradlePrev

-----------------------------------------------------------------------------
(* Properties of runBuildProcess: platform *)

NoBuildNoUpload ==
    \A i \in 1..Len(calls) :
        calls[i].step \notin {"android", "ios", "drive", "testflight"}

\* The steps before the builds whose failure ends the run.
EarlySteps == {"calc", "env", "deps"}

EndedEarly == \E i \in 1..Len(calls) : calls[i].step \in EarlySteps /\ calls[i].failed

\* C33 (as claimed): a finished run whose platform is none of All, Android,
\* iOS ended in the failure "invalid platform specified" and invoked no build
\* step and no upload step.
C33_UnrecognizedPlatformRejected ==
    (pPc = "done" /\ cfg.Platform \notin {PlatformAll, PlatformAndroid, PlatformIOS}) =>
        /\ pRet.failed /\ pRet.msg = "invalid platform specified"
        /\ NoBuildNoUpload

\* C33 (amended): a finished run whose platform is, letter case aside, none of
\* All, Android, iOS invoked no build step and no upload step and failed:
\* with "invalid platform specified", unless the build number, the
\* environment constant or the dependency installation had failed before.
C33_UnrecognizedPlatformRejectedUnlessEndedEarly ==
    (pPc = "done" /\ ToLower(cfg.Platform) \notin
                        {ToLower(PlatformAll), ToLower(PlatformAndroid), ToLower(PlatformIOS)}) =>
        /\ NoBuildNoUpload
        /\ pRet.failed
        /\ IF EndedEarly
           THEN pRet.msg \in { WrapMsg(st) : st \in EarlySteps }
           ELSE pRet.msg = "invalid platform specified"

\* A run with platform Web that installed the dependencies and was then rejected.
C33_Witness ==
    /\ pPc = "done" /\ cfg.Platform = <<"W", "e", "b">>
    /\ pRet.msg = "invalid platform specified"
    /\ Count("deps") = 1 /\ NoBuildNoUpload

-----------------------------------------------------------------------------
\* The text of the refresh a step has queued, if it has queued one.
QueuedRefresh == Len(uiQueue') = Len(uiQueue) + 1

\* C34: starting a run resets the accumulation buffer and the display text
\* and leaves the ring as it is; no step empties a ring that holds lines; and
\* every refresh shows the newest maxLogLines lines extracted since the
\* process started, those of earlier runs included.
C34_RingSurvivesNewRun ==
    [][ /\ Tap => (logBuffer' = <<>> /\ display' = <<>> /\ lines' = lines)
        /\ lines # <<>> => lines' # <<>>
        /\ QueuedRefresh =>
             uiQueue'[Len(uiQueue')].text = Join(LastN(extracted', maxLogLines), NL)
      ]_vars

\* The second run's first line is on display under the report of the first run.
C34_Witness ==
    /\ started = 2
    /\ gPc[1] = "done"
    /\ gPc[2] = "run"
    /\ uiQueue = <<>>
    /\ extracted = <<<<>>, <<>>, <<"BUILD">>, <<"b">>>>
    /\ display = Join(extracted, NL)

-----------------------------------------------------------------------------
\* What the sink holds for a line the subprocess wrote to stdout / to stderr.
StdoutEntries == { DropCR(l) \o <<NL>> : l \in LinesOf("out") }
StderrEntries == { ErrPrefix \o DropCR(l) \o <<NL>> : l \in LinesOf("err") }

\* The lines of stream r the sink has received, in the order it received them.
Delivered(r) ==
    SelectSeq(sink, LAMBDA e : e \in (IF r = "out" THEN StdoutEntries ELSE StderrEntries))

\* The lines the subprocess emitted on stream r, in that order, as the sink shows them.
Emitted(r) ==
    [i \in 1..Len(wrote[r]) |->
        (IF r = "out" THEN <<>> ELSE ErrPrefix) \o DropCR(wrote[r][i]) \o <<NL>>]

\* C35: within one runCmd invocation the stdout lines reach the sink in the
\* order the subprocess emitted them, and so do the stderr lines.
C35_PerStreamOrderKept ==
    \A r \in Streams : IsPrefix(Delivered(r), Emitted(r))

\* Two different lines of each stream, delivered interleaved: a stderr line
\* first, a stdout line last.
C35_Witness ==
    /\ rcPc = "returned"
    /\ wrote["out"] = << <<"o">>, <<"w", CR>> >>
    /\ wrote["err"] = << <<"e">>, <<"f">> >>
    /\ \E i \in 1..Len(sink) :
         /\ i + 3 <= Len(sink)
         /\ SubSeq(sink, i, i + 3) =
              << ErrPrefix \o <<"e", NL>>, <<"o", NL>>, ErrPrefix \o <<"f", NL>>, <<"w", NL>> >>

-----------------------------------------------------------------------------
\* Every Write of every writer ends on a newline.
WritersEndOnNewline ==
    \A t \in Writers : PendingInput(t)[Len(PendingInput(t))] = NL

\* The lines that consist of the bytes of one Write call of some writer.
SingleWriteLines ==
    UNION { { l : l \in {Segments(p)[i] : i \in 1..Len(Segments(p))} } :
              p \in {ProgressLine, ReportText, ReadErrorMsg("out")} }

\* C36: the writers' Write calls all ending on a newline, every line of the
\* ring, and every line ever extracted, consists of the bytes of one Write
\* call, and no bytes are left in logBuffer between two calls.
C36_RingLinesFromSingleWrites ==
    WritersEndOnNewline =>
       /\ \A i \in 1..Len(lines) : lines[i] \in SingleWriteLines
       /\ \A i \in 1..Len(extracted) : extracted[i] \in SingleWriteLines
       /\ lock = NoThread => logBuffer = <<>>

\* Two writers at once: the left-behind reader has written its line into a
\* ring that holds the first run's report, and the second run's goroutine,
\* which was running meanwhile, now holds the lock for its own Write.
C36_Witness ==
    /\ lock = Goroutine(2)
    /\ gPc[2] = "run"
    /\ leftover = 0
    /\ lines = <<<<>>, <<>>, <<"BUILD">>, <<"Error reading stdout: ">>>>

-----------------------------------------------------------------------------
\* C37: for every version isValidVersion accepts, calculateBuildNumberSimple
\* succeeds and returns the decimal value of the third component, which is
\* not negative, however many digits the component has.
C37_AcceptedVersionHasBuildNumber ==
    (vPc = "done" /\ vValid) =>
        /\ ~vOut.err
        /\ IsValueOf(vOut, Split(vIn, ".")[3])
        /\ Head(vOut.num) # "-"

-----------------------------------------------------------------------------
\* The run started last has finished and the UI thread has nothing left to do.
RunFinishedAndUiQuiet ==
    /\ started > 0
    /\ gPc[started] \in {"enable", "done"}
    /\ uiQueue = <<>>

\* C38: after a run has finished and every queued UI update has executed, the
\* display shows the newline-joined ring, and the ring's last line is the
\* run's final "BUILD ..." line.
C38_FinalDisplayIsRing ==
    RunFinishedAndUiQuiet =>
        /\ display = Join(lines, NL)
        /\ lines # <<>>
        /\ lines[Len(lines)] = <<"BUILD">>

-----------------------------------------------------------------------------
NoArtifact == androidArtifactPath = NoPath /\ iosArtifactPath = NoPath

\* C39 (as claimed): on a host other than macOS a finished run never invoked
\* the iOS build and did not fail on it; with platform "iOS" it ended in
\* success, with no build step, no artifact and no upload step.
C39_IosSkippedOnOtherHosts ==
    (pPc = "done" /\ goos # "darwin") =>
        /\ Count("ios") = 0
        /\ pRet.msg # WrapMsg("ios")
        /\ cfg.Platform = PlatformIOS =>
              /\ ~pRet.failed
              /\ NoBuildNoUpload
              /\ NoArtifact

\* C39 (amended): as above, but the run with platform "iOS" ends in success
\* unless the build number, the environment constant or the dependency
\* installation failed, and then in that step's failure.
C39_IosSkippedOnOtherHostsUnlessEndedEarly ==
    (pPc = "done" /\ goos # "darwin") =>
        /\ Count("ios") = 0
        /\ pRet.msg # WrapMsg("ios")
        /\ cfg.Platform = PlatformIOS =>
              /\ pRet.failed <=> EndedEarly
              /\ pRet.failed => pRet.msg \in { WrapMsg(st) : st \in EarlySteps }
              /\ NoBuildNoUpload
              /\ NoArtifact

\* A run with platform "iOS" on Linux that installed the dependencies, skipped
\* the build and ended in success with uploads enabled.
C39_Witness ==
    /\ pPc = "done"
    /\ goos = "linux"
    /\ cfg.Platform = PlatformIOS
    /\ UploadsEnabled(cfg)
    /\ Count("deps") = 1
    /\ ~pRet.failed
    /\ NoBuildNoUpload

-----------------------------------------------------------------------------
\* The subprocess waits for a pipe to be read and runCmd waits for the
\* subprocess: for the end of its output (wg.Wait) or for its exit (cmd.Wait).
MutuallyBlocked == ProcBlocked /\ rcPc \in {"running", "joined"}

ReadersEnded == \A r \in Streams : rd[r] = "done"

\* C40: once the subprocess has exited the readers end and runCmd returns,
\* also when a reader has stopped on a read error; and a reader that has
\* stopped never leaves the subprocess and runCmd waiting for each other.
C40_RunCmdTerminates ==
    /\ (proc.state = "exited") ~> (ReadersEnded /\ rcPc = "returned")
    /\ [](~MutuallyBlocked)

====
